---- MODULE Spec2Model ----
(***************************************************************************)
(* A model of excalidraw-to-mermaid: parser.js (parseDocument, mapShape,   *)
(* mapArrowStyle, extractGroups, isInsideFrame, detectDirection) and       *)
(* converter.js (toMermaid, assignIds, shortId, renderNode,                *)
(* renderConnector, quoteLabel, sanitizeId).                               *)
(*                                                                         *)
(* JavaScript values are modelled as tagged records, so that a field of    *)
(* the wrong type is a value of the model and a TypeError is an outcome.   *)
(* A JavaScript string is a sequence of one-character strings.  A Map is a *)
(* sequence of [k, v] entries in insertion order.  Coordinates are kept    *)
(* doubled where the code halves a width, so centers stay integers.        *)
(***************************************************************************)
EXTENDS Integers, Sequences, FiniteSets, TLC

VARIABLES pc, doc, graph, out, arg, ret

vars == <<pc, doc, graph, out, arg, ret>>

(***************************************************************************)
(* JavaScript values                                                       *)
(***************************************************************************)
\* string-like values: undefined, null, a string, a number (by its digits)
Undef == [t |-> "undef", s |-> <<>>]
Null == [t |-> "null", s |-> <<>>]
Str(s) == [t |-> "str", s |-> s]
NumS(s) == [t |-> "num", s |-> s]

\* numeric values: a number, or undefined (which arithmetic turns into NaN)
NumV(n) == [t |-> "num", n |-> n]
NoNum == [t |-> "undef", n |-> 0]

\* ToBoolean on a string-like value
Truthy(v) ==
    \/ v.t = "str" /\ v.s # <<>>
    \/ v.t = "num" /\ v.s # <<"0">>

\* ToBoolean on a numeric value
TruthyNum(v) == v.t = "num" /\ v.n # 0

\* a || b
Or(a, b) == IF Truthy(a) THEN a ELSE b

\* a || 0 on a numeric value
OrZero(v) == IF TruthyNum(v) THEN v ELSE NumV(0)

IsNaN(v) == v.t # "num"

Abs(n) == IF n < 0 THEN -n ELSE n

(***************************************************************************)
(* Map: insertion-ordered, keys compared by SameValueZero                  *)
(***************************************************************************)
MapHas(m, k) == \E i \in 1..Len(m) : m[i].k = k

MapIndex(m, k) == CHOOSE i \in 1..Len(m) : m[i].k = k

MapGet(m, k) == m[MapIndex(m, k)].v

MapSet(m, k, v) ==
    IF MapHas(m, k)
    THEN [m EXCEPT ![MapIndex(m, k)] = [k |-> k, v |-> v]]
    ELSE Append(m, [k |-> k, v |-> v])

MapKeys(m) == [i \in 1..Len(m) |-> m[i].k]

Range(s) == {s[i] : i \in 1..Len(s)}

(***************************************************************************)
(* parser.js                                                               *)
(***************************************************************************)
NODE_TYPES == {"rectangle", "ellipse", "diamond"}

EDGE_TYPES == {"arrow", "line"}

\* a bug that looks at the stroke before the roundness
mapShapeDashedFirst(el) ==
    CASE el.type = "diamond" -> "diamond"
      [] el.type = "ellipse" -> "circle"
      [] el.type = "rectangle" ->
            IF el.strokeStyle = "dashed" THEN "subroutine"
            ELSE IF el.roundness.t = "obj" /\ TruthyNum(el.roundness.type) THEN "rounded"
            ELSE "rectangle"
      [] OTHER -> "rectangle"

\* el.roundness && el.roundness.type
mapShape(el) ==
    CASE el.type = "diamond" -> "diamond"
      [] el.type = "ellipse" -> "circle"
      [] el.type = "rectangle" ->
            IF el.roundness.t = "obj" /\ TruthyNum(el.roundness.type)
            THEN "rounded"
            ELSE IF el.strokeStyle = "dashed" THEN "subroutine" ELSE "rectangle"
      [] OTHER -> "rectangle"

\* a bug that looks at the dashes before the width
mapArrowStyleDashedFirst(el) ==
    LET hasEnd == el.endArrowhead \notin {"null", "undefined"} /\ el.endArrowhead # "none"
        isDashed == el.strokeStyle = "dashed" \/ el.strokeStyle = "dotted"
        width == IF TruthyNum(el.strokeWidth) THEN el.strokeWidth.n ELSE 1
        isThick == width >= 4
    IN  IF isDashed THEN (IF hasEnd THEN "dotted" ELSE "dotted-line")
        ELSE IF isThick THEN (IF hasEnd THEN "thick" ELSE "thick-line")
        ELSE IF hasEnd THEN "arrow"
        ELSE "line"

mapArrowStyle(el) ==
    LET hasEnd == el.endArrowhead \notin {"null", "undefined"} /\ el.endArrowhead # "none"
        isDashed == el.strokeStyle = "dashed" \/ el.strokeStyle = "dotted"
        width == IF TruthyNum(el.strokeWidth) THEN el.strokeWidth.n ELSE 1
        isThick == width >= 4
    IN  IF isThick THEN (IF hasEnd THEN "thick" ELSE "thick-line")
        ELSE IF isDashed THEN (IF hasEnd THEN "dotted" ELSE "dotted-line")
        ELSE IF hasEnd THEN "arrow"
        ELSE "line"

\* twice node.x + node.width / 2; NaN when x is not a number
Center2(pos, extent) ==
    IF IsNaN(pos) \/ IsNaN(extent) THEN NoNum ELSE NumV(2 * pos.n + extent.n)

\* a comparison with NaN is false
Geq(a, b) == ~IsNaN(a) /\ ~IsNaN(b) /\ a.n >= b.n

Leq(a, b) == ~IsNaN(a) /\ ~IsNaN(b) /\ a.n <= b.n

\* twice frame.x + (frame.width || 0)
FrameFar2(pos, extent) ==
    IF IsNaN(pos) THEN NoNum ELSE NumV(2 * (pos.n + OrZero(extent).n))

Twice(v) == IF IsNaN(v) THEN NoNum ELSE NumV(2 * v.n)

\* the boundary of the frame left out
isInsideFrameStrict(node, frame) ==
    LET nodeCx == Center2(node.x, node.width)
        nodeCy == Center2(node.y, node.height)
    IN  /\ Geq(nodeCx, Twice(frame.x)) /\ nodeCx # Twice(frame.x)
        /\ Leq(nodeCx, FrameFar2(frame.x, frame.width))
        /\ nodeCx # FrameFar2(frame.x, frame.width)
        /\ Geq(nodeCy, Twice(frame.y)) /\ nodeCy # Twice(frame.y)
        /\ Leq(nodeCy, FrameFar2(frame.y, frame.height))
        /\ nodeCy # FrameFar2(frame.y, frame.height)

isInsideFrame(node, frame) ==
    LET nodeCx == Center2(node.x, node.width)
        nodeCy == Center2(node.y, node.height)
    IN  /\ Geq(nodeCx, Twice(frame.x))
        /\ Leq(nodeCx, FrameFar2(frame.x, frame.width))
        /\ Geq(nodeCy, Twice(frame.y))
        /\ Leq(nodeCy, FrameFar2(frame.y, frame.height))

\* a bug that lets a tie between the totals go to LR
majorityOrTie(horizontalScore, verticalScore) ==
    IF horizontalScore >= verticalScore THEN "LR" ELSE "TD"

\* return horizontalScore > verticalScore ? "LR" : "TD"
majority(horizontalScore, verticalScore) ==
    IF horizontalScore > verticalScore THEN "LR" ELSE "TD"

RECURSIVE detectDirectionLoop(_, _, _, _, _)
detectDirectionLoop(nodes, edges, i, horizontalScore, verticalScore) ==
    IF i > Len(edges)
    THEN majority(horizontalScore, verticalScore)
    ELSE LET edge == edges[i] IN
         IF ~MapHas(nodes, edge.source) \/ ~MapHas(nodes, edge.target)
         THEN detectDirectionLoop(nodes, edges, i + 1, horizontalScore, verticalScore)
         ELSE LET src == MapGet(nodes, edge.source)
                  tgt == MapGet(nodes, edge.target)
                  sx == Center2(src.x, src.width)
                  sy == Center2(src.y, src.height)
                  tx == Center2(tgt.x, tgt.width)
                  ty == Center2(tgt.y, tgt.height)
                  \* Math.abs of a NaN is NaN, and NaN > dy, dx > NaN are false
                  horizontal ==
                      /\ ~IsNaN(sx) /\ ~IsNaN(tx) /\ ~IsNaN(sy) /\ ~IsNaN(ty)
                      /\ Abs(tx.n - sx.n) > Abs(ty.n - sy.n)
              IN  IF horizontal
                  THEN detectDirectionLoop(nodes, edges, i + 1, horizontalScore + 1, verticalScore)
                  ELSE detectDirectionLoop(nodes, edges, i + 1, horizontalScore, verticalScore + 1)

detectDirection(nodes, edges) ==
    IF Len(edges) = 0 THEN "TD" ELSE detectDirectionLoop(nodes, edges, 1, 0, 0)

\* the graph a call that raised a TypeError leaves behind: none
NoGraph == [nodes |-> <<>>, edges |-> <<>>, groups |-> <<>>, direction |-> ""]

Threw(v) == [threw |-> TRUE, value |-> v]

Returned(v) == [threw |-> FALSE, value |-> v]

\* the fallback order turned round: originalText before text
boundTextOriginalFirst(el) == Or(Or(el.originalText, el.text), Str(<<>>))

\* el.text || el.originalText || ""
boundText(el) == Or(Or(el.text, el.originalText), Str(<<>>))

\* for (const el of elements) if (el.type === "text" && el.containerId) ...
RECURSIVE textByContainerLoop(_, _, _)
textByContainerLoop(elements, i, m) ==
    IF i > Len(elements) THEN m
    ELSE LET el == elements[i] IN
         textByContainerLoop(elements, i + 1,
            IF el.type = "text" /\ Truthy(el.containerId)
            THEN MapSet(m, el.containerId, boundText(el))
            ELSE m)

\* textByContainer.get(el.id) || ""
labelOf(textByContainer, id) ==
    IF MapHas(textByContainer, id)
    THEN Or(MapGet(textByContainer, id), Str(<<>>))
    ELSE Str(<<>>)

\* el.groupIds || []
groupIdsOrEmpty(g) ==
    IF g.t \in {"undef", "null"} \/ (g.t = "str" /\ g.items = <<>>)
    THEN [t |-> "arr", items |-> <<>>]
    ELSE g

\* every dashed rectangle skipped, labelled or not
isDecorativeAnyLabel(el, label) == el.type = "rectangle" /\ el.strokeStyle = "dashed"

\* el.type === "rectangle" && el.strokeStyle === "dashed" && !label
isDecorative(el, label) ==
    el.type = "rectangle" /\ el.strokeStyle = "dashed" /\ ~Truthy(label)

RECURSIVE nodesLoop(_, _, _, _)
nodesLoop(elements, textByContainer, i, nodes) ==
    IF i > Len(elements) THEN nodes
    ELSE LET el == elements[i]
             label == labelOf(textByContainer, el.id)
         IN  IF el.type \notin NODE_TYPES
             THEN nodesLoop(elements, textByContainer, i + 1, nodes)
             ELSE IF isDecorative(el, label)
             THEN nodesLoop(elements, textByContainer, i + 1, nodes)
             ELSE nodesLoop(elements, textByContainer, i + 1,
                    MapSet(nodes, el.id,
                       [id |-> el.id,
                        label |-> label,
                        shape |-> mapShape(el),
                        x |-> el.x,
                        y |-> el.y,
                        width |-> OrZero(el.width),
                        height |-> OrZero(el.height),
                        strokeStyle |-> IF el.strokeStyle = "undefined" THEN "solid" ELSE el.strokeStyle,
                        strokeColor |-> el.strokeColor,
                        backgroundColor |-> el.backgroundColor,
                        groupIds |-> groupIdsOrEmpty(el.groupIds)]))

\* el.startBinding?.elementId
boundId(binding) == IF binding.t = "obj" THEN binding.elementId ELSE Undef

\* a bug that takes any two bindings for an edge
anyBinding(nodes, startId, endId) == TRUE

\* if (!nodes.has(startId) || !nodes.has(endId)) continue
connectsNodes(nodes, startId, endId) == MapHas(nodes, startId) /\ MapHas(nodes, endId)

RECURSIVE edgesLoop(_, _, _, _, _)
edgesLoop(elements, textByContainer, nodes, i, edges) ==
    IF i > Len(elements) THEN edges
    ELSE LET el == elements[i]
             startId == boundId(el.startBinding)
             endId == boundId(el.endBinding)
         IN  IF el.type \notin EDGE_TYPES
             THEN edgesLoop(elements, textByContainer, nodes, i + 1, edges)
             ELSE IF ~Truthy(startId) \/ ~Truthy(endId)
             THEN edgesLoop(elements, textByContainer, nodes, i + 1, edges)
             ELSE IF ~connectsNodes(nodes, startId, endId)
             THEN edgesLoop(elements, textByContainer, nodes, i + 1, edges)
             ELSE edgesLoop(elements, textByContainer, nodes, i + 1,
                    Append(edges,
                       [id |-> el.id,
                        source |-> startId,
                        target |-> endId,
                        label |-> labelOf(textByContainer, el.id),
                        style |-> mapArrowStyle(el)]))

\* the node ids whose node lies inside the frame, in node order
frameMembers(nodes, frame) ==
    MapKeys(SelectSeq(nodes, LAMBDA e : isInsideFrame(e.v, frame)))

RECURSIVE framesLoop(_, _, _, _)
framesLoop(frames, nodes, i, groups) ==
    IF i > Len(frames) THEN groups
    ELSE LET frame == frames[i]
             label == Or(frame.name, Str(<<>>))
             members == frameMembers(nodes, frame)
         IN  framesLoop(frames, nodes, i + 1,
                IF Len(members) > 0
                THEN MapSet(groups, frame.id, [id |-> frame.id, label |-> label, members |-> members])
                ELSE groups)

\* what for (const gid of node.groupIds) iterates: the items of an array, the
\* characters of a string
gidItems(g) ==
    IF g.t = "str" THEN [j \in 1..Len(g.items) |-> Str(<<g.items[j]>>)] ELSE g.items

\* for (const gid of node.groupIds) raises a TypeError on a number or an object
Iterable(g) == g.t \in {"arr", "str"}

RECURSIVE gidLoop(_, _, _, _)
gidLoop(nodeId, gids, j, groupIdSets) ==
    IF j > Len(gids) THEN groupIdSets
    ELSE LET gid == gids[j]
             seen == IF MapHas(groupIdSets, gid) THEN groupIdSets ELSE MapSet(groupIdSets, gid, <<>>)
         IN  gidLoop(nodeId, gids, j + 1, MapSet(seen, gid, Append(MapGet(seen, gid), nodeId)))

RECURSIVE groupIdSetsLoop(_, _, _)
groupIdSetsLoop(nodes, i, groupIdSets) ==
    IF i > Len(nodes) THEN groupIdSets
    ELSE groupIdSetsLoop(nodes, i + 1,
            gidLoop(nodes[i].k, gidItems(nodes[i].v.groupIds), 1, groupIdSets))

RECURSIVE groupIdGroupsLoop(_, _, _)
groupIdGroupsLoop(groupIdSets, i, groups) ==
    IF i > Len(groupIdSets) THEN groups
    ELSE LET gid == groupIdSets[i].k
             members == groupIdSets[i].v
         IN  groupIdGroupsLoop(groupIdSets, i + 1,
                IF Len(members) > 1 /\ ~MapHas(groups, gid)
                THEN MapSet(groups, gid, [id |-> gid, label |-> Str(<<>>), members |-> members])
                ELSE groups)

extractGroups(elements, nodes) ==
    LET frames == SelectSeq(elements, LAMBDA el : el.type = "frame")
        frameGroups == framesLoop(frames, nodes, 1, <<>>)
    IN  IF \E i \in 1..Len(nodes) : ~Iterable(nodes[i].v.groupIds)
        THEN Threw(<<>>)
        ELSE Returned(groupIdGroupsLoop(groupIdSetsLoop(nodes, 1, <<>>), 1, frameGroups))

\* a bug that keeps the elements flagged deleted
keepDeleted(all) == all

\* .filter((el) => !el.isDeleted)
notDeleted(all) == SelectSeq(all, LAMBDA el : ~el.isDeleted)

\* (doc.elements || []).filter(...) raises a TypeError when doc.elements is a
\* truthy value without a filter method, and when an entry is null
parseDocument(d) ==
    IF d.elements.t \in {"str", "num", "obj"} THEN Threw(NoGraph)
    ELSE LET all == IF d.elements.t = "arr" THEN d.elements.items ELSE <<>> IN
         IF \E i \in 1..Len(all) : all[i].js = "null" THEN Threw(NoGraph)
         ELSE LET elements == notDeleted(all)
                  textByContainer == textByContainerLoop(elements, 1, <<>>)
                  nodes == nodesLoop(elements, textByContainer, 1, <<>>)
                  edges == edgesLoop(elements, textByContainer, nodes, 1, <<>>)
                  groups == extractGroups(elements, nodes)
                  direction == detectDirection(nodes, edges)
              IN  IF groups.threw THEN Threw(NoGraph)
                  ELSE Returned([nodes |-> nodes, edges |-> edges,
                                 groups |-> groups.value, direction |-> direction])

(***************************************************************************)
(* converter.js                                                            *)
(***************************************************************************)
\* the characters /[:"{}|[\]<>()#&]/ matches
NEEDS_QUOTES == {":", "\"", "{", "}", "|", "[", "]", "<", ">", "(", ")", "#", "&"}

Letters ==
    <<"A", "B", "C", "D", "E", "F", "G", "H", "I", "J", "K", "L", "M",
      "N", "O", "P", "Q", "R", "S", "T", "U", "V", "W", "X", "Y", "Z">>

\* the characters /[^a-zA-Z0-9_]/ does not match
WordChars ==
    {Letters[i] : i \in 1..26} \cup
    {"a", "b", "c", "d", "e", "f", "g", "h", "i", "j", "k", "l", "m",
     "n", "o", "p", "q", "r", "s", "t", "u", "v", "w", "x", "y", "z",
     "0", "1", "2", "3", "4", "5", "6", "7", "8", "9", "_"}

\* the characters of a direction token
DirChars(d) ==
    CASE d = "TD" -> <<"T", "D">>
      [] d = "LR" -> <<"L", "R">>
      [] d = "BT" -> <<"B", "T">>
      [] d = "RL" -> <<"R", "L">>
      [] d = "TB" -> <<"T", "B">>
      [] OTHER -> <<"?">>

\* a bug that appends the letter instead of prepending it
shortIdBodyAppend(n, result) ==
    [result |-> result \o <<Letters[(n % 26) + 1]>>, n |-> (n \div 26) - 1]

\* one pass of the do-while loop of shortId:
\*   result = String.fromCharCode(65 + (n % 26)) + result; n = Math.floor(n / 26) - 1
shortIdBody(n, result) ==
    [result |-> <<Letters[(n % 26) + 1]>> \o result, n |-> (n \div 26) - 1]

RECURSIVE shortIdLoop(_, _)
shortIdLoop(n, result) ==
    LET b == shortIdBody(n, result)
    IN  IF b.n >= 0 THEN shortIdLoop(b.n, b.result) ELSE b.result

shortId(index) == shortIdLoop(index, <<>>)

\* a counter that outlives the call: one more for every call made before
idStartCarried == Len(out.calls)

\* let i = 0
idStart == 0

assignIds(nodes) ==
    [i \in 1..Len(nodes) |-> [k |-> nodes[i].k, v |-> shortId(idStart + i - 1)]]

RECURSIVE ReplaceChar(_, _, _)
ReplaceChar(s, c, by) ==
    IF s = <<>> THEN <<>>
    ELSE (IF Head(s) = c THEN by ELSE <<Head(s)>>) \o ReplaceChar(Tail(s), c, by)

\* the test run on the text after the <br> substitution
needsQuotesAfterBr(text, cleaned) == \E i \in 1..Len(cleaned) : cleaned[i] \in NEEDS_QUOTES

\* NEEDS_QUOTES.test(text), on the text before the <br> substitution
needsQuotes(text, cleaned) == \E i \in 1..Len(text) : text[i] \in NEEDS_QUOTES

\* text.replace raises a TypeError when text is a number
quoteLabel(text) ==
    IF ~Truthy(text) THEN Returned(<<"\"", "\"">>)
    ELSE IF text.t # "str" THEN Threw(<<>>)
    ELSE LET cleaned == ReplaceChar(text.s, "\n", <<"<", "b", "r", ">">>)
         IN  IF needsQuotes(text.s, cleaned)
             THEN Returned(<<"\"">> \o ReplaceChar(cleaned, "\"", <<"#", "q", "u", "o", "t", ";">>) \o <<"\"">>)
             ELSE Returned(cleaned)

\* the label taken as it is, empty or not
labelAsIs(sid, node) == node.label

\* node.label || shortId
labelOrShortId(sid, node) == Or(node.label, Str(sid))

renderNode(sid, node) ==
    LET label == labelOrShortId(sid, node)
        quoted == quoteLabel(label)
    IN  IF quoted.threw THEN Threw(<<>>)
        ELSE Returned(
               CASE node.shape = "diamond" -> sid \o <<"{">> \o quoted.value \o <<"}">>
                 [] node.shape = "circle" -> sid \o <<"(", "(">> \o quoted.value \o <<")", ")">>
                 [] node.shape = "rounded" -> sid \o <<"(">> \o quoted.value \o <<")">>
                 [] node.shape = "subroutine" -> sid \o <<"[", "[">> \o quoted.value \o <<"]", "]">>
                 [] OTHER -> sid \o <<"[">> \o quoted.value \o <<"]">>)

\* the case "line" left out, so that a line falls to the default
renderConnectorNoLine(edge) ==
    CASE edge.style = "thick" -> <<"=", "=", ">">>
      [] edge.style = "thick-line" -> <<"=", "=", "=">>
      [] edge.style = "dotted" -> <<"-", ".", "-", ">">>
      [] edge.style = "dotted-line" -> <<"-", ".", "-">>
      [] OTHER -> <<"-", "-", ">">>

renderConnector(edge) ==
    CASE edge.style = "thick" -> <<"=", "=", ">">>
      [] edge.style = "thick-line" -> <<"=", "=", "=">>
      [] edge.style = "dotted" -> <<"-", ".", "-", ">">>
      [] edge.style = "dotted-line" -> <<"-", ".", "-">>
      [] edge.style = "line" -> <<"-", "-", "-">>
      [] OTHER -> <<"-", "-", ">">>

SubstringEnd == 20

\* id.replace raises a TypeError when id is not a string
sanitizeId(id) ==
    IF id.t # "str" THEN Threw(<<>>)
    ELSE LET replaced == [i \in 1..Len(id.s) |-> IF id.s[i] \in WordChars THEN id.s[i] ELSE "_"]
         IN  Returned(SubSeq(replaced, 1, IF Len(replaced) < SubstringEnd THEN Len(replaced) ELSE SubstringEnd))

Indent == <<" ", " ", " ", " ">>

\* a bug that forgets which nodes an earlier group rendered
neverRendered(renderedNodes, memberId) == FALSE

\* if (renderedNodes.has(memberId)) continue
isRendered(renderedNodes, memberId) == memberId \in renderedNodes

\* for (const memberId of group.members): the lines pushed and the nodes rendered
RECURSIVE membersLoop(_, _, _, _, _)
membersLoop(nodes, idMap, members, j, st) ==
    IF j > Len(members) \/ st.threw THEN st
    ELSE LET memberId == members[j] IN
         IF isRendered(st.renderedNodes, memberId) \/ ~MapHas(nodes, memberId)
         THEN membersLoop(nodes, idMap, members, j + 1, st)
         ELSE LET r == renderNode(MapGet(idMap, memberId), MapGet(nodes, memberId))
              IN  IF r.threw THEN [st EXCEPT !.threw = TRUE]
                  ELSE membersLoop(nodes, idMap, members, j + 1,
                         [st EXCEPT !.lines = Append(@, Indent \o Indent \o r.value),
                                    !.renderedNodes = @ \cup {memberId}])

\* for (const group of groups.values())
RECURSIVE groupsLoop(_, _, _, _, _)
groupsLoop(nodes, idMap, groups, i, st) ==
    IF i > Len(groups) \/ st.threw THEN st
    ELSE LET group == groups[i].v
             groupShortId == sanitizeId(group.id)
             label == Or(group.label, Str(<<>>))
             quoted == quoteLabel(label)
             open == Indent \o <<"s", "u", "b", "g", "r", "a", "p", "h", " ">> \o groupShortId.value
         IN  IF groupShortId.threw \/ (Truthy(label) /\ quoted.threw)
             THEN [st EXCEPT !.threw = TRUE]
             ELSE LET opened ==
                          [st EXCEPT !.lines = Append(@,
                              IF Truthy(label)
                              THEN open \o <<"[">> \o quoted.value \o <<"]">>
                              ELSE open)]
                      inside == membersLoop(nodes, idMap, group.members, 1, opened)
                  IN  IF inside.threw THEN inside
                      ELSE groupsLoop(nodes, idMap, groups, i + 1,
                             [inside EXCEPT !.lines = Append(@, Indent \o <<"e", "n", "d">>)])

\* for (const [nodeId, node] of nodes) if (groupedNodes.has(nodeId)) continue
RECURSIVE ungroupedLoop(_, _, _, _, _)
ungroupedLoop(nodes, idMap, groupedNodes, i, st) ==
    IF i > Len(nodes) \/ st.threw THEN st
    ELSE IF nodes[i].k \in groupedNodes
    THEN ungroupedLoop(nodes, idMap, groupedNodes, i + 1, st)
    ELSE LET r == renderNode(MapGet(idMap, nodes[i].k), nodes[i].v)
         IN  IF r.threw THEN [st EXCEPT !.threw = TRUE]
             ELSE ungroupedLoop(nodes, idMap, groupedNodes, i + 1,
                    [st EXCEPT !.lines = Append(@, Indent \o r.value)])

\* for (const edge of edges)
RECURSIVE edgeLinesLoop(_, _, _, _)
edgeLinesLoop(idMap, edges, i, st) ==
    IF i > Len(edges) \/ st.threw THEN st
    ELSE LET edge == edges[i] IN
         IF ~MapHas(idMap, edge.source) \/ ~MapHas(idMap, edge.target)
         THEN edgeLinesLoop(idMap, edges, i + 1, st)
         ELSE LET srcId == MapGet(idMap, edge.source)
                  tgtId == MapGet(idMap, edge.target)
                  connector == renderConnector(edge)
                  quoted == quoteLabel(edge.label)
              IN  IF Truthy(edge.label)
                  THEN IF quoted.threw THEN [st EXCEPT !.threw = TRUE]
                       ELSE edgeLinesLoop(idMap, edges, i + 1,
                              [st EXCEPT !.lines = Append(@,
                                  Indent \o srcId \o <<" ">> \o connector \o <<"|">>
                                  \o quoted.value \o <<"|", " ">> \o tgtId)])
                  ELSE edgeLinesLoop(idMap, edges, i + 1,
                         [st EXCEPT !.lines = Append(@,
                             Indent \o srcId \o <<" ">> \o connector \o <<" ">> \o tgtId)])

\* the lines array of toMermaid before it is joined
\* the ungrouped nodes put before the groups
renderUngroupedFirst(nodes, idMap, groups, groupedNodes, st) ==
    groupsLoop(nodes, idMap, groups, 1, ungroupedLoop(nodes, idMap, groupedNodes, 1, st))

\* "Render groups with their contained nodes", then "Render ungrouped nodes"
renderDeclarations(nodes, idMap, groups, groupedNodes, st) ==
    ungroupedLoop(nodes, idMap, groupedNodes, 1, groupsLoop(nodes, idMap, groups, 1, st))

toMermaidLines(g, options) ==
    LET dir == IF options.direction \notin {"undefined", ""} THEN options.direction
               ELSE IF g.direction \notin {"undefined", ""} THEN g.direction
               ELSE "TD"
        idMap == assignIds(g.nodes)
        groupedNodes == UNION {Range(g.groups[i].v.members) : i \in 1..Len(g.groups)}
        st0 == [threw |-> FALSE,
                lines |-> << <<"g", "r", "a", "p", "h", " ">> \o DirChars(dir) >>,
                renderedNodes |-> {}]
        st2 == renderDeclarations(g.nodes, idMap, g.groups, groupedNodes, st0)
    IN  edgeLinesLoop(idMap, g.edges, 1, st2)

\* lines.join("\n") + "\n"
RECURSIVE JoinLines(_)
JoinLines(lines) ==
    IF lines = <<>> THEN <<>>
    ELSE Head(lines) \o <<"\n">> \o JoinLines(Tail(lines))

toMermaid(g, options) ==
    LET st == toMermaidLines(g, options)
    IN  IF st.threw THEN Threw(<<>>) ELSE Returned(JoinLines(st.lines))

(***************************************************************************)
(* Documents                                                               *)
(***************************************************************************)
NoBinding == [t |-> "null", elementId |-> Undef]

BoundTo(id) == [t |-> "obj", elementId |-> id]

NoRoundness == [t |-> "null", type |-> NoNum]

Roundness(n) == [t |-> "obj", type |-> NumV(n)]

GroupIds(items) == [t |-> "arr", items |-> items]

\* an element as Excalidraw writes it, every field present
Element ==
    [js |-> "obj", type |-> "rectangle", id |-> Undef, isDeleted |-> FALSE,
     containerId |-> Null, text |-> Undef, originalText |-> Undef,
     strokeStyle |-> "solid", strokeWidth |-> NumV(1), roundness |-> NoRoundness,
     x |-> NumV(0), y |-> NumV(0), width |-> NumV(100), height |-> NumV(50),
     groupIds |-> GroupIds(<<>>), startBinding |-> NoBinding, endBinding |-> NoBinding,
     endArrowhead |-> "null", name |-> Undef,
     strokeColor |-> "#1e1e1e", backgroundColor |-> "transparent"]

\* a null entry of the element list
NullEntry == [Element EXCEPT !.js = "null", !.type = "undefined"]

Shape(type, id, x, y, gids) ==
    [Element EXCEPT !.type = type, !.id = id, !.x = NumV(x), !.y = NumV(y),
                    !.groupIds = GroupIds(gids)]

Text(id, containerId, text) ==
    [Element EXCEPT !.type = "text", !.id = id, !.containerId = containerId,
                    !.text = text, !.originalText = text]

Arrow(type, id, startBinding, endBinding, endArrowhead) ==
    [Element EXCEPT !.type = type, !.id = id, !.startBinding = startBinding,
                    !.endBinding = endBinding, !.endArrowhead = endArrowhead]

Frame(id, name, x, y, width, height) ==
    [Element EXCEPT !.type = "frame", !.id = id, !.name = name, !.x = NumV(x),
                    !.y = NumV(y), !.width = NumV(width), !.height = NumV(height)]

Deleted(el) == [el EXCEPT !.isDeleted = TRUE]

Array(items) == [t |-> "arr", items |-> items]

Doc(elements) == [elements |-> elements]

MaxElements == 3

\* the sequences over pool of at most MaxElements entries
Lists(pool) == UNION {[1..n -> pool] : n \in 0..MaxElements}

ida == Str(<<"a">>)
idb == Str(<<"b">>)
idc == Str(<<"c">>)
idd == Str(<<"d">>)
idt == Str(<<"t">>)
idf == Str(<<"f">>)
idg == Str(<<"g">>)
idh == Str(<<"h">>)

\* well-typed elements: shapes in two group ids, a decorative dashed
\* rectangle, bound text, a frame, arrows bound to a node, to nothing, to a
\* text element and to the decorative rectangle, and deleted twins
Pool ==
    {Shape("rectangle", ida, 0, 0, <<idg, idh>>),
     Shape("diamond", idb, 300, 0, <<idg, idh>>),
     Shape("ellipse", idc, 0, 300, <<>>),
     [Shape("rectangle", idd, 0, 0, <<idg>>) EXCEPT !.strokeStyle = "dashed"],
     Deleted(Shape("diamond", idb, 300, 0, <<idg, idh>>)),
     Text(idt, ida, Str(<<"H", "i">>)),
     Deleted(Text(idt, idb, Str(<<"N", "o">>))),
     Frame(idf, Str(<<"F", "r">>), -50, -50, 200, 400),
     Deleted(Frame(idf, Str(<<"F", "r">>), -50, -50, 200, 400)),
     Arrow("arrow", Str(<<"e">>), BoundTo(ida), BoundTo(idb), "arrow"),
     Arrow("line", Str(<<"l">>), BoundTo(idc), BoundTo(ida), "null"),
     Arrow("arrow", Str(<<"m">>), BoundTo(ida), NoBinding, "arrow"),
     Arrow("line", Str(<<"s">>), BoundTo(ida), BoundTo(ida), "null"),
     Arrow("arrow", Str(<<"n">>), BoundTo(idt), BoundTo(idd), "arrow"),
     Deleted(Arrow("arrow", Str(<<"e">>), BoundTo(ida), BoundTo(idb), "arrow"))}

Docs == {Doc(Array(l)) : l \in Lists(Pool)}

(***************************************************************************)
(* The conversion pipeline: parseDocument, then toMermaid                  *)
(***************************************************************************)
NoResult == Returned(NoGraph)

NoOutput == Returned(<<>>)

NoOptions == [direction |-> "undefined"]

Init ==
    /\ pc = "ready"
    /\ doc \in Docs
    /\ graph = NoResult
    /\ out = NoOutput
    /\ arg = <<>>
    /\ ret = <<>>

ParseDocument ==
    /\ pc = "ready"
    /\ graph' = parseDocument(doc)
    /\ pc' = IF graph'.threw THEN "threw" ELSE "parsed"
    /\ UNCHANGED <<doc, out, arg, ret>>

ToMermaid ==
    /\ pc = "parsed"
    /\ out' = toMermaid(graph.value, NoOptions)
    /\ pc' = IF out'.threw THEN "threw" ELSE "rendered"
    /\ UNCHANGED <<doc, graph, arg, ret>>

Next == ParseDocument \/ ToMermaid

Spec == Init /\ [][Next]_vars

(***************************************************************************)
(* Documents with missing and wrongly typed fields                         *)
(***************************************************************************)
\* what doc.elements is when it is no array: absent, null, "abc", 5, {}
NonArrays ==
    {[t |-> "undef", items |-> <<>>], [t |-> "null", items |-> <<>>],
     [t |-> "str", items |-> <<"a", "b", "c">>], [t |-> "num", items |-> <<>>],
     [t |-> "obj", items |-> <<>>]}

MalformedPool ==
    {NullEntry,
     Shape("rectangle", Undef, 0, 0, <<>>),
     Shape("ellipse", NumS(<<"7">>), 0, 0, <<>>),
     Shape("rectangle", ida, 0, 0, <<NumS(<<"1">>)>>),
     Shape("diamond", idb, 300, 0, <<NumS(<<"1">>)>>),
     [Shape("rectangle", idc, 0, 300, <<>>) EXCEPT !.groupIds = [t |-> "num", items |-> <<>>]],
     [Shape("rectangle", idc, 0, 300, <<>>) EXCEPT !.x = NoNum, !.width = NoNum],
     Text(idt, ida, NumS(<<"5">>)),
     Text(idt, Null, Str(<<"H", "i">>)),
     Frame(Undef, Undef, -50, -50, 200, 200),
     Frame(idf, Str(<<"F", "r">>), 1000, 1000, 10, 10),
     Arrow("arrow", Undef, BoundTo(ida), BoundTo(NumS(<<"7">>)), "arrow"),
     Arrow("line", Str(<<"l">>), NoBinding, NoBinding, "null")}

MalformedDocs ==
    {Doc(e) : e \in NonArrays} \cup {Doc(Array(l)) : l \in Lists(MalformedPool)}

InitMalformed ==
    /\ pc = "ready"
    /\ doc \in MalformedDocs
    /\ graph = NoResult
    /\ out = NoOutput
    /\ arg = <<>>
    /\ ret = <<>>

SpecMalformed == InitMalformed /\ [][Next]_vars

(***************************************************************************)
(* Reading the claims off a state                                          *)
(***************************************************************************)
Parsed == pc \in {"parsed", "rendered"} \/ (pc = "threw" /\ ~graph.threw)

\* the entries of the document's element list, none when it is no array
Entries == IF doc.elements.t = "arr" THEN doc.elements.items ELSE <<>>

\* the entries that are elements not flagged deleted
Live == SelectSeq(Entries, LAMBDA el : el.js = "obj" /\ ~el.isDeleted)

EmptyGraphTD == [nodes |-> <<>>, edges |-> <<>>, groups |-> <<>>, direction |-> "TD"]

\* the text cut at its newlines (every line of the output ends with one)
\* line is what was read of the current line before chars
SplitLines(chars, line) ==
    LET text == line \o chars
        breaks == {i \in 1..Len(text) : text[i] = "\n"}
        n == Cardinality(breaks)
        nth(k) == CHOOSE i \in breaks : Cardinality({j \in breaks : j <= i}) = k
        start(k) == IF k = 1 THEN 1 ELSE nth(k - 1) + 1
        rest == IF n = 0 THEN 1 ELSE nth(n) + 1
    IN  [k \in 1..n |-> SubSeq(text, start(k), nth(k) - 1)]
        \o (IF rest <= Len(text) THEN <<SubSeq(text, rest, Len(text))>> ELSE <<>>)

RECURSIVE Strip(_)
Strip(line) == IF line # <<>> /\ Head(line) = " " THEN Strip(Tail(line)) ELSE line

StartsWith(line, prefix) ==
    Len(line) >= Len(prefix) /\ SubSeq(line, 1, Len(prefix)) = prefix

OutLines == SplitLines(out.value, <<>>)

IsSubgraphLine(line) == StartsWith(Strip(line), <<"s", "u", "b", "g", "r", "a", "p", "h", " ">>)

IsEndLine(line) == Strip(line) = <<"e", "n", "d">>

\* a node declaration: the short id, then the opening bracket of a shape
IsDeclOf(line, sid) ==
    \E b \in {"[", "(", "{"} : StartsWith(Strip(line), Append(sid, b))

\* the block line k lies in: the number of the last subgraph line before it
\* when that block is still open, 0 at top level
BlockOf(lines, k) ==
    LET opens == Cardinality({j \in 1..(k - 1) : IsSubgraphLine(lines[j])})
        ends == Cardinality({j \in 1..(k - 1) : IsEndLine(lines[j])})
    IN  IF opens > ends THEN opens ELSE 0

\* the first group, in group map order, that lists the node; 0 when none does
FirstGroupOf(groups, nodeId) ==
    LET claiming == {i \in 1..Len(groups) : nodeId \in Range(groups[i].v.members)}
    IN  IF claiming = {} THEN 0 ELSE CHOOSE i \in claiming : \A j \in claiming : i <= j

(***************************************************************************)
(* C1: the conversion never raises an error, whatever fields of the        *)
(* elements of the document are missing or wrongly typed (a null entry, a  *)
(* frame without an id, a number for an id, a group id or a text, a        *)
(* groupIds that is no list).  An element list that is no array is C2.     *)
(***************************************************************************)
C1_NeverRaises == doc.elements.t = "arr" => pc # "threw"

(***************************************************************************)
(* C2: a document whose element list is absent, null or no array parses to *)
(* zero nodes, zero edges, zero groups and direction TD, without an error. *)
(***************************************************************************)
C2_NonArrayIsEmpty ==
    (pc # "ready" /\ doc.elements.t # "arr") =>
        (~graph.threw /\ graph.value = EmptyGraphTD)

(***************************************************************************)
(* C3: every edge of the parsed graph has its source and its target among  *)
(* the keys of the node map, and the edges are exactly the arrows and      *)
(* lines, not deleted, whose two bindings name extracted nodes: an arrow   *)
(* with an absent binding, or bound to something that is no node, is not   *)
(* in the edge list.                                                       *)
(***************************************************************************)
C3_EdgesReferenceNodes ==
    Parsed =>
        LET g == graph.value
            bound(b) == b.t = "obj" /\ Truthy(b.elementId) /\ MapHas(g.nodes, b.elementId)
            kept == SelectSeq(Live, LAMBDA el :
                        el.type \in EDGE_TYPES /\ bound(el.startBinding) /\ bound(el.endBinding))
        IN  /\ \A i \in 1..Len(g.edges) :
                  MapHas(g.nodes, g.edges[i].source) /\ MapHas(g.nodes, g.edges[i].target)
            /\ [i \in 1..Len(g.edges) |-> g.edges[i].id] = [i \in 1..Len(kept) |-> kept[i].id]

\* an arrow became an edge while another arrow or line was dropped
C3_Witness ==
    /\ pc = "parsed"
    /\ Len(graph.value.edges) >= 1
    /\ Len(SelectSeq(Live, LAMBDA el : el.type \in EDGE_TYPES)) > Len(graph.value.edges)

(***************************************************************************)
(* C4: in the rendered text every node of the graph has exactly one        *)
(* declaration line; it lies in the block of the first group that lists    *)
(* the node, and at top level when no group lists it.                      *)
(***************************************************************************)
C4_EachNodeDeclaredOnce ==
    pc = "rendered" =>
        LET g == graph.value
            lines == OutLines
        IN  \A i \in 1..Len(g.nodes) :
                LET decls == {k \in 1..Len(lines) : IsDeclOf(lines[k], shortId(i - 1))}
                IN  /\ Cardinality(decls) = 1
                    /\ \A k \in decls : BlockOf(lines, k) = FirstGroupOf(g.groups, g.nodes[i].k)

\* a node listed by two groups has been rendered, next to an ungrouped one
C4_Witness ==
    /\ pc = "rendered"
    /\ \E i \in 1..Len(graph.value.nodes) :
          Cardinality({j \in 1..Len(graph.value.groups) :
              graph.value.nodes[i].k \in Range(graph.value.groups[j].v.members)}) >= 2
    /\ \E i \in 1..Len(graph.value.nodes) :
          FirstGroupOf(graph.value.groups, graph.value.nodes[i].k) = 0

(***************************************************************************)
(* C5: a document without a rectangle, ellipse or diamond that is not      *)
(* deleted parses to zero nodes, zero edges, zero groups and direction TD, *)
(* and renders to the header line graph TD and nothing else.               *)
(***************************************************************************)
C5_NoShapesIsEmpty ==
    (pc # "ready" /\ \A i \in 1..Len(Live) : Live[i].type \notin NODE_TYPES) =>
        /\ ~graph.threw
        /\ graph.value = EmptyGraphTD
        /\ pc # "threw"
        /\ pc = "rendered" => out.value = <<"g", "r", "a", "p", "h", " ", "T", "D", "\n">>

(***************************************************************************)
(* C10: parseDocument returns for a document what it returns for the       *)
(* document with the deleted elements removed; no node, edge, label or     *)
(* group comes from a deleted element.                                     *)
(***************************************************************************)
C10_DeletedHaveNoEffect ==
    Parsed =>
        LET g == graph.value
            from(type, id) == \E i \in 1..Len(Live) : Live[i].type \in type /\ Live[i].id = id
        IN  /\ graph = parseDocument(Doc(Array(Live)))
            /\ \A i \in 1..Len(g.nodes) : from(NODE_TYPES, g.nodes[i].k)
            /\ \A i \in 1..Len(g.edges) : from(EDGE_TYPES, g.edges[i].id)
            /\ \A i \in 1..Len(g.nodes) :
                  Truthy(g.nodes[i].v.label) =>
                      \E j \in 1..Len(Live) :
                          Live[j].type = "text" /\ Live[j].containerId = g.nodes[i].k
            /\ \A i \in 1..Len(g.groups) :
                  g.groups[i].v.label # Str(<<>>) => from({"frame"}, g.groups[i].k)

\* a document with a live shape and deleted elements of two kinds was parsed
C10_Witness ==
    /\ pc = "parsed"
    /\ Len(graph.value.nodes) >= 1
    /\ \E i, j \in 1..Len(Entries) :
          /\ Entries[i].isDeleted /\ Entries[j].isDeleted
          /\ Entries[i].type \in NODE_TYPES /\ Entries[j].type \in EDGE_TYPES

(***************************************************************************)
(* shortId, one pass of its loop at a time                                 *)
(***************************************************************************)
MaxIndex == 702

NoDoc == Doc(Array(<<>>))

InitShortId ==
    /\ pc = "loop"
    /\ arg \in 0..MaxIndex
    /\ ret = [result |-> <<>>, n |-> arg]
    /\ doc = NoDoc
    /\ graph = NoResult
    /\ out = NoOutput

ShortIdStep ==
    /\ pc = "loop"
    /\ ret' = shortIdBody(ret.n, ret.result)
    /\ pc' = IF ret'.n >= 0 THEN "loop" ELSE "returned"
    /\ UNCHANGED <<arg, doc, graph, out>>

NextShortId == ShortIdStep

\* the loop is sequential code: a pass that can run does run
SpecShortId == InitShortId /\ [][NextShortId]_vars /\ WF_vars(ShortIdStep)

\* the position of a letter, A = 1
LetterValue(c) == CHOOSE k \in 1..26 : Letters[k] = c

\* the index of a code in bijective base 26: digits 1..26, less one
RECURSIVE CodeValue(_)
CodeValue(code) ==
    IF code = <<>> THEN 0
    ELSE 26 * CodeValue(SubSeq(code, 1, Len(code) - 1)) + LetterValue(code[Len(code)])

C6_Code ==
    LET code == ret.result
    IN  /\ code = shortId(arg)
        /\ \A i \in 1..Len(code) : \E k \in 1..26 : code[i] = Letters[k]
        /\ CodeValue(code) - 1 = arg
        /\ Len(code) = (IF arg <= 25 THEN 1 ELSE IF arg <= 701 THEN 2 ELSE 3)
        /\ \A j \in 0..MaxIndex : j # arg => shortId(j) # code
        /\ arg = 0 => code = <<"A">>
        /\ arg = 25 => code = <<"Z">>
        /\ arg = 26 => code = <<"A", "A">>
        /\ arg = 27 => code = <<"A", "B">>
        /\ arg = 51 => code = <<"A", "Z">>
        /\ arg = 52 => code = <<"B", "A">>
        /\ arg = 702 => code = <<"A", "A", "A">>

(***************************************************************************)
(* C6: shortId maps the indexes 0, 1, 2, ... one to one onto the bijective *)
(* base-26 letter codes in order (A..Z, AA..ZZ, AAA, ...), and its loop    *)
(* ends for every index.                                                   *)
(***************************************************************************)
C6_ShortIdBijective == [](pc = "returned" => C6_Code) /\ <>(pc = "returned")

\* the loop has returned AAA for index 702 after three passes
C6_Witness == pc = "returned" /\ arg = 702 /\ ret.result = <<"A", "A", "A">>

(***************************************************************************)
(* detectDirection, mapShape and mapArrowStyle, called on their own        *)
(***************************************************************************)
DirNode(id, x, y, width, height) ==
    [k |-> id, v |-> [id |-> id, x |-> x, y |-> y, width |-> width, height |-> height]]

\* node a at the origin, node b beside, below or diagonal to it (101 wide:
\* half a unit further right), node c absent, below, or without an x
DirNodeMaps ==
    {<<DirNode(ida, NumV(0), NumV(0), NumV(100), NumV(50)), b>> \o c :
        b \in {DirNode(idb, NumV(300), NumV(0), NumV(100), NumV(50)),
               DirNode(idb, NumV(0), NumV(300), NumV(100), NumV(50)),
               DirNode(idb, NumV(300), NumV(300), NumV(100), NumV(50)),
               DirNode(idb, NumV(300), NumV(300), NumV(101), NumV(50)),
               DirNode(idb, NumV(-300), NumV(300), NumV(100), NumV(51))},
        c \in {<<>>,
               <<DirNode(idc, NumV(0), NumV(300), NumV(100), NumV(50))>>,
               <<DirNode(idc, NoNum, NumV(0), NumV(100), NumV(50))>>}}

DirEdge(source, target) == [source |-> source, target |-> target]

\* idd is the id of no node
DirEdges ==
    {DirEdge(ida, idb), DirEdge(idb, ida), DirEdge(ida, idc), DirEdge(idc, idb),
     DirEdge(ida, idd)}

MaxEdges == 4

InitDetectDirection ==
    /\ pc = "call"
    /\ arg \in {[nodes |-> m, edges |-> e] :
                   m \in DirNodeMaps, e \in UNION {[1..n -> DirEdges] : n \in 0..MaxEdges}}
    /\ ret = ""
    /\ doc = NoDoc
    /\ graph = NoResult
    /\ out = NoOutput

DetectDirection ==
    /\ pc = "call"
    /\ ret' = detectDirection(arg.nodes, arg.edges)
    /\ pc' = "returned"
    /\ UNCHANGED <<arg, doc, graph, out>>

NextDetectDirection == DetectDirection

SpecDetectDirection == InitDetectDirection /\ [][NextDetectDirection]_vars

\* the edges of arg whose source and target are both in the node map
Counted == {i \in 1..Len(arg.edges) :
               MapHas(arg.nodes, arg.edges[i].source) /\ MapHas(arg.nodes, arg.edges[i].target)}

\* twice the distance between the centers of the edge's nodes along an axis;
\* -1 when a coordinate is missing
Displacement2(i, pos, extent) ==
    LET src == MapGet(arg.nodes, arg.edges[i].source)
        tgt == MapGet(arg.nodes, arg.edges[i].target)
    IN  IF {src[pos].t, src[extent].t, tgt[pos].t, tgt[extent].t} # {"num"} THEN -1
        ELSE Abs((2 * tgt[pos].n + tgt[extent].n) - (2 * src[pos].n + src[extent].n))

Horizontal ==
    {i \in Counted :
        /\ Displacement2(i, "x", "width") >= 0
        /\ Displacement2(i, "y", "height") >= 0
        /\ Displacement2(i, "x", "width") > Displacement2(i, "y", "height")}

(***************************************************************************)
(* C7: detectDirection returns LR exactly when, among the edges with both  *)
(* nodes in the map, more have a horizontal distance between centers       *)
(* strictly above the vertical one than not; otherwise TD, and never BT or *)
(* RL.                                                                     *)
(***************************************************************************)
C7_DirectionByMajority ==
    pc = "returned" =>
        /\ ret \in {"LR", "TD"}
        /\ ret = "LR" <=> Cardinality(Horizontal) > Cardinality(Counted \ Horizontal)

\* LR was returned against a vertical vote, with an edge skipped
C7_Witness ==
    /\ pc = "returned"
    /\ ret = "LR"
    /\ Counted \ Horizontal # {}
    /\ Counted # 1..Len(arg.edges)

Roundnesses ==
    {[t |-> "undef", type |-> NoNum], NoRoundness, [t |-> "num", type |-> NoNum],
     [t |-> "obj", type |-> NoNum], Roundness(0), Roundness(1), Roundness(2), Roundness(3)}

StrokeStyles == {"undefined", "solid", "dashed", "dotted"}

InitMapShape ==
    /\ pc = "call"
    /\ arg \in {[Element EXCEPT !.type = t, !.roundness = r, !.strokeStyle = s] :
                   t \in {"rectangle", "ellipse", "diamond", "hexagon", "text", "undefined"},
                   r \in Roundnesses, s \in StrokeStyles}
    /\ ret = ""
    /\ doc = NoDoc
    /\ graph = NoResult
    /\ out = NoOutput

MapShape ==
    /\ pc = "call"
    /\ ret' = mapShape(arg)
    /\ pc' = "returned"
    /\ UNCHANGED <<arg, doc, graph, out>>

NextMapShape == MapShape

SpecMapShape == InitMapShape /\ [][NextMapShape]_vars

\* the roundness marker of an element: the type its roundness carries
HasRoundnessMarker(el) ==
    el.roundness.t = "obj" /\ el.roundness.type.t = "num" /\ el.roundness.type.n # 0

(***************************************************************************)
(* C8: mapShape returns diamond for a diamond, circle for an ellipse; for  *)
(* a rectangle rounded when it has a roundness marker, else subroutine     *)
(* when its stroke is dashed, else rectangle; rectangle for any other      *)
(* kind.                                                                   *)
(***************************************************************************)
C8_ShapeByKind ==
    pc = "returned" =>
        ret = (IF arg.type = "diamond" THEN "diamond"
               ELSE IF arg.type = "ellipse" THEN "circle"
               ELSE IF arg.type # "rectangle" THEN "rectangle"
               ELSE IF HasRoundnessMarker(arg) THEN "rounded"
               ELSE IF arg.strokeStyle = "dashed" THEN "subroutine"
               ELSE "rectangle")

\* a rounded and dashed rectangle was classified rounded
C8_Witness ==
    /\ pc = "returned"
    /\ arg.type = "rectangle" /\ arg.strokeStyle = "dashed" /\ HasRoundnessMarker(arg)
    /\ ret = "rounded"

MaxStrokeWidth == 5

InitMapArrowStyle ==
    /\ pc = "call"
    /\ arg \in {[Element EXCEPT !.type = "arrow", !.endArrowhead = h, !.strokeStyle = s,
                                !.strokeWidth = w] :
                   h \in {"undefined", "null", "none", "arrow", "triangle"},
                   s \in StrokeStyles,
                   w \in {NoNum} \cup {NumV(n) : n \in 0..MaxStrokeWidth}}
    /\ ret = ""
    /\ doc = NoDoc
    /\ graph = NoResult
    /\ out = NoOutput

MapArrowStyle ==
    /\ pc = "call"
    /\ ret' = mapArrowStyle(arg)
    /\ pc' = "returned"
    /\ UNCHANGED <<arg, doc, graph, out>>

NextMapArrowStyle == MapArrowStyle

SpecMapArrowStyle == InitMapArrowStyle /\ [][NextMapArrowStyle]_vars

(***************************************************************************)
(* C9: mapArrowStyle returns thick or thick-line when the stroke width is  *)
(* at least 4 (an absent width counts as 1), else dotted or dotted-line    *)
(* when the stroke is dashed or dotted, else arrow or line; the first of   *)
(* each pair when the end arrowhead is present and not "none".             *)
(***************************************************************************)
C9_ArrowStyleByPriority ==
    pc = "returned" =>
        LET hasHead == arg.endArrowhead \notin {"undefined", "null", "none"}
            isDashed == arg.strokeStyle \in {"dashed", "dotted"}
            isThick == (IF arg.strokeWidth.t = "num" THEN arg.strokeWidth.n ELSE 1) >= 4
        IN  ret = (IF isThick THEN (IF hasHead THEN "thick" ELSE "thick-line")
                   ELSE IF isDashed THEN (IF hasHead THEN "dotted" ELSE "dotted-line")
                   ELSE IF hasHead THEN "arrow" ELSE "line")

\* a thick dashed arrow with a head was classified thick
C9_Witness ==
    /\ pc = "returned"
    /\ arg.strokeStyle = "dashed" /\ arg.strokeWidth = NumV(4) /\ arg.endArrowhead = "arrow"
    /\ ret = "thick"

(***************************************************************************)
(* Documents with bound text and dashed shapes                             *)
(***************************************************************************)
ide == Str(<<"e">>)

\* a text with a rendered text and another original text, texts with an
\* empty or absent rendered text, a free text, a deleted text; dashed
\* shapes; arrows bound to the dashed rectangle and carrying a text
LabelPool ==
    {Shape("rectangle", ida, 0, 0, <<idg>>),
     [Shape("rectangle", idd, 0, 0, <<idg>>) EXCEPT !.strokeStyle = "dashed"],
     [Shape("ellipse", idc, 0, 300, <<>>) EXCEPT !.strokeStyle = "dashed"],
     [Shape("diamond", idb, 300, 0, <<>>) EXCEPT !.strokeStyle = "dashed"],
     [Text(idt, ida, Str(<<"H", "i">>)) EXCEPT !.originalText = Str(<<"Y", "o">>)],
     [Text(idt, ida, Undef) EXCEPT !.originalText = Undef],
     [Text(idt, ide, Str(<<>>)) EXCEPT !.originalText = Str(<<"E", "d">>)],
     Text(idt, idd, Str(<<"D", "e">>)),
     Text(idt, Null, Str(<<"F", "r">>)),
     Deleted(Text(idt, idd, Str(<<"X", "x">>))),
     Arrow("arrow", ide, BoundTo(ida), BoundTo(ida), "arrow"),
     Arrow("arrow", Str(<<"m">>), BoundTo(idd), BoundTo(ida), "arrow"),
     Frame(idf, Str(<<"F", "r">>), -50, -50, 200, 400)}

LabelDocs == {Doc(Array(l)) : l \in Lists(LabelPool)}

InitLabels ==
    /\ pc = "ready"
    /\ doc \in LabelDocs
    /\ graph = NoResult
    /\ out = NoOutput
    /\ arg = <<>>
    /\ ret = <<>>

SpecLabels == InitLabels /\ [][Next]_vars

\* the text elements, not deleted, whose containerId is id
TextsFor(id) ==
    SelectSeq(Live, LAMBDA el :
        el.type = "text" /\ el.containerId.t = "str" /\ el.containerId = id)

\* the label one text element gives
TextLabel(el) ==
    IF el.text.t = "str" /\ el.text.s # <<>> THEN el.text
    ELSE IF el.originalText.t = "str" /\ el.originalText.s # <<>> THEN el.originalText
    ELSE Str(<<>>)

\* the label of the container id: that of the last text element bound to it
ResolvedLabel(id) ==
    LET texts == TextsFor(id)
    IN  IF texts = <<>> THEN Str(<<>>) ELSE TextLabel(texts[Len(texts)])

(***************************************************************************)
(* C11: the label of a node or an edge with id X is taken from a text      *)
(* element, not deleted, whose containerId is X (the last one when there   *)
(* are several): its text when that is not empty, else its originalText    *)
(* when there is one, else the empty string.  Without such a text element  *)
(* the label is empty; a text element without a containerId labels         *)
(* nothing.                                                                *)
(***************************************************************************)
C11_LabelFromBoundText ==
    Parsed =>
        LET g == graph.value
        IN  /\ \A i \in 1..Len(g.nodes) : g.nodes[i].v.label = ResolvedLabel(g.nodes[i].k)
            /\ \A i \in 1..Len(g.edges) : g.edges[i].label = ResolvedLabel(g.edges[i].id)

\* an edge took its label from the originalText of a text element with an
\* empty text, while its node, without text element, stayed unlabelled
C11_Witness ==
    /\ pc = "parsed"
    /\ \E i \in 1..Len(graph.value.edges) :
          LET texts == TextsFor(graph.value.edges[i].id)
          IN  /\ texts # <<>>
              /\ texts[Len(texts)].text = Str(<<>>)
              /\ graph.value.edges[i].label = Str(<<"E", "d">>)
    /\ \E i \in 1..Len(graph.value.nodes) :
          TextsFor(graph.value.nodes[i].k) = <<>> /\ graph.value.nodes[i].v.label = Str(<<>>)

\* a dashed rectangle whose resolved label is empty
Decorative(el) ==
    el.type = "rectangle" /\ el.strokeStyle = "dashed" /\ ResolvedLabel(el.id) = Str(<<>>)

(***************************************************************************)
(* C12: a dashed rectangle, not deleted, whose resolved label is empty is  *)
(* left out entirely: it is no key of the node map, gets no short id, is   *)
(* member of no group, and no edge starts or ends at it.  Every other      *)
(* rectangle, ellipse or diamond that is not deleted (a dashed rectangle   *)
(* with a label, a dashed ellipse or diamond without one) is a node whose  *)
(* id is the element id.                                                   *)
(***************************************************************************)
C12_DashedUnlabelledRectangleSkipped ==
    Parsed =>
        LET g == graph.value
        IN  \A i \in 1..Len(Live) :
                LET el == Live[i] IN
                el.type \in NODE_TYPES =>
                    IF Decorative(el)
                    THEN /\ ~MapHas(g.nodes, el.id)
                         /\ ~MapHas(assignIds(g.nodes), el.id)
                         /\ \A j \in 1..Len(g.groups) : el.id \notin Range(g.groups[j].v.members)
                         /\ \A j \in 1..Len(g.edges) :
                               g.edges[j].source # el.id /\ g.edges[j].target # el.id
                    ELSE MapHas(g.nodes, el.id) /\ MapGet(g.nodes, el.id).id = el.id

\* a dashed rectangle without label was left out, with an arrow bound to it,
\* inside a frame that got another member
C12_Witness ==
    /\ pc = "parsed"
    /\ \E i \in 1..Len(Live) :
          /\ Live[i].type = "rectangle" /\ Decorative(Live[i])
          /\ \E j \in 1..Len(Live) :
                Live[j].type = "arrow" /\ Live[j].startBinding = BoundTo(Live[i].id)
    /\ Len(graph.value.nodes) = 1
    /\ Len(graph.value.edges) = 0

(***************************************************************************)
(* Documents with frames and group ids                                     *)
(***************************************************************************)
idi == Str(<<"i">>)

\* nodes with their center inside a frame, on its corner, half a unit
\* outside and far outside; a frame without name, a named frame whose id is
\* also a group id, an empty frame, a deleted frame; a node that lists one
\* group id twice
GroupPool ==
    {Shape("rectangle", ida, 10, 10, <<idg>>),
     [Shape("rectangle", idb, 250, 150, <<idg>>) EXCEPT !.height = NumV(100)],
     [Shape("rectangle", idc, 250, 10, <<idg, idh>>) EXCEPT !.width = NumV(101)],
     Shape("ellipse", Str(<<"k">>), 400, 10, <<idg, idh>>),
     Shape("diamond", Str(<<"j">>), 400, 300, <<idi, idi>>),
     Frame(idf, Undef, 0, 0, 300, 200),
     Frame(idg, Str(<<"G", "f">>), 0, 0, 300, 200),
     Frame(Str(<<"z">>), Str(<<"Z", "z">>), 1000, 1000, 10, 10),
     Deleted(Frame(Str(<<"y">>), Str(<<"Y", "y">>), 0, 0, 300, 200))}

GroupDocs == {Doc(Array(l)) : l \in Lists(GroupPool)}

InitGroups ==
    /\ pc = "ready"
    /\ doc \in GroupDocs
    /\ graph = NoResult
    /\ out = NoOutput
    /\ arg = <<>>
    /\ ret = <<>>

SpecGroups == InitGroups /\ [][Next]_vars

\* twice the center of the node lies within twice the bounds of the frame
CenterWithin(node, frame) ==
    LET cx2 == 2 * node.x.n + node.width.n
        cy2 == 2 * node.y.n + node.height.n
    IN  /\ 2 * frame.x.n <= cx2 /\ cx2 <= 2 * (frame.x.n + frame.width.n)
        /\ 2 * frame.y.n <= cy2 /\ cy2 <= 2 * (frame.y.n + frame.height.n)

\* the ids of the nodes, in node order, whose center the frame contains
Contained(nodes, frame) ==
    MapKeys(SelectSeq(nodes, LAMBDA e : CenterWithin(e.v, frame)))

\* the ids of the nodes that carry the group id
Carriers(nodes, gid) ==
    {nodes[i].k : i \in {j \in 1..Len(nodes) : gid \in Range(nodes[j].v.groupIds.items)}}

LiveFrames == SelectSeq(Live, LAMBDA el : el.type = "frame")

(***************************************************************************)
(* C13: every frame that is not deleted and contains the center of at      *)
(* least one node (its boundary included) gives a group keyed by the frame *)
(* id, whose members are exactly the nodes with their center within the    *)
(* frame and whose label is the frame name, empty when the frame has none. *)
(* A frame that contains no node center creates no group: a group under    *)
(* its id, if any, comes from a group id.                                  *)
(***************************************************************************)
C13_FrameGroups ==
    Parsed =>
        LET g == graph.value
        IN  \A i \in 1..Len(LiveFrames) :
                LET frame == LiveFrames[i]
                    members == Contained(g.nodes, frame)
                IN  IF members # <<>>
                    THEN /\ MapHas(g.groups, frame.id)
                         /\ MapGet(g.groups, frame.id) =
                               [id |-> frame.id,
                                label |-> IF frame.name.t = "str" THEN frame.name ELSE Str(<<>>),
                                members |-> members]
                    ELSE MapHas(g.groups, frame.id) =>
                            Range(MapGet(g.groups, frame.id).members) = Carriers(g.nodes, frame.id)

\* a frame without name grouped a node whose center lies on its corner and
\* left out a node whose center lies half a unit outside
C13_Witness ==
    /\ pc = "parsed"
    /\ MapHas(graph.value.groups, idf)
    /\ MapGet(graph.value.groups, idf) = [id |-> idf, label |-> Str(<<>>), members |-> <<idb>>]
    /\ MapHas(graph.value.nodes, idc)

\* the group ids carried by the nodes
CarriedIds(nodes) == UNION {Range(nodes[i].v.groupIds.items) : i \in 1..Len(nodes)}

\* a frame, not deleted, with this id contains a node center
FrameGroupKey(nodes, id) ==
    \E i \in 1..Len(LiveFrames) :
        LiveFrames[i].id = id /\ Contained(nodes, LiveFrames[i]) # <<>>

(***************************************************************************)
(* C14: for each group id carried by nodes there is a group keyed by it,   *)
(* with an empty label and exactly the carrying nodes as members, if and   *)
(* only if at least two nodes carry it and no frame group uses the key; on *)
(* a collision the frame group is kept.  Frame groups come before group-id *)
(* groups in the group map, and every group has a non-empty member list of *)
(* node ids.                                                               *)
(***************************************************************************)
C14_GroupIdGroups ==
    Parsed =>
        LET g == graph.value
            isFrameGroup(j) == FrameGroupKey(g.nodes, g.groups[j].k)
        IN  /\ \A gid \in CarriedIds(g.nodes) :
                  IF FrameGroupKey(g.nodes, gid)
                  THEN \E i \in 1..Len(LiveFrames) :
                          /\ LiveFrames[i].id = gid
                          /\ MapGet(g.groups, gid).members = Contained(g.nodes, LiveFrames[i])
                  ELSE (Cardinality(Carriers(g.nodes, gid)) >= 2) <=>
                          /\ MapHas(g.groups, gid)
                          /\ MapGet(g.groups, gid).label = Str(<<>>)
                          /\ Range(MapGet(g.groups, gid).members) = Carriers(g.nodes, gid)
            /\ \A j, k \in 1..Len(g.groups) : (isFrameGroup(j) /\ ~isFrameGroup(k)) => j < k
            /\ \A j \in 1..Len(g.groups) :
                  /\ g.groups[j].v.members # <<>>
                  /\ \A n \in Range(g.groups[j].v.members) : MapHas(g.nodes, n)

(***************************************************************************)
(* quoteLabel on its own                                                   *)
(***************************************************************************)
MaxLabelLen == 3

\* the characters that force quoting, a newline, a carriage return, a
\* letter and a blank
LabelChars == NEEDS_QUOTES \cup {"\n", "\r", "a", " "}

LabelTexts ==
    {Undef, Null} \cup {Str(s) : s \in UNION {[1..n -> LabelChars] : n \in 0..MaxLabelLen}}

InitQuoteLabel ==
    /\ pc = "call"
    /\ arg \in LabelTexts
    /\ ret = NoOutput
    /\ doc = NoDoc
    /\ graph = NoResult
    /\ out = NoOutput

QuoteLabel ==
    /\ pc = "call"
    /\ ret' = quoteLabel(arg)
    /\ pc' = "returned"
    /\ UNCHANGED <<arg, doc, graph, out>>

NextQuoteLabel == QuoteLabel

SpecQuoteLabel == InitQuoteLabel /\ [][NextQuoteLabel]_vars

RECURSIVE Flatten(_)
Flatten(seqs) == IF seqs = <<>> THEN <<>> ELSE Head(seqs) \o Flatten(Tail(seqs))

Reserved == {":", "\"", "{", "}", "|", "[", "]", "<", ">", "(", ")", "#", "&"}

Br == <<"<", "b", "r", ">">>

Quot == <<"#", "q", "u", "o", "t", ";">>

(***************************************************************************)
(* C15: quoteLabel returns the two characters "" for an empty or absent    *)
(* text; for a text with at least one of the characters                    *)
(* : " { } | [ ] < > ( ) # & it returns the text with every newline        *)
(* replaced by <br> and every double quote by #quot;, between one pair of  *)
(* double quotes; for a text with none of them it returns the text with    *)
(* every newline replaced by <br>, without quotes.                         *)
(***************************************************************************)
C15_QuoteLabel ==
    pc = "returned" =>
        /\ ~ret.threw
        /\ IF arg.t # "str" \/ arg.s = <<>>
           THEN ret.value = <<"\"", "\"">>
           ELSE LET text == arg.s
                    reserved == \E i \in 1..Len(text) : text[i] \in Reserved
                    replaced == Flatten([i \in 1..Len(text) |->
                                    IF text[i] = "\n" THEN Br
                                    ELSE IF text[i] = "\"" /\ reserved THEN Quot
                                    ELSE <<text[i]>>])
                IN  ret.value = IF reserved THEN <<"\"">> \o replaced \o <<"\"">> ELSE replaced

\* a text with a letter, a newline and a double quote came back quoted
C15_Witness ==
    /\ pc = "returned"
    /\ arg = Str(<<"a", "\n", "\"">>)
    /\ ret.value = <<"\"", "a">> \o Br \o Quot \o <<"\"">>

(***************************************************************************)
(* renderNode on its own                                                   *)
(***************************************************************************)
\* the five shapes of mapShape, a shape it never returns, and none
NodeShapes ==
    {"rectangle", "rounded", "diamond", "circle", "subroutine", "hexagon", "undefined"}

\* absent, empty, plain, and with characters that quoteLabel rewrites
NodeLabels ==
    {Undef} \cup {Str(s) : s \in UNION {[1..n -> {"a", ":", "\n", "\""}] : n \in 0..2}}

ShortIds == {shortId(0), shortId(1), shortId(26)}

InitRenderNode ==
    /\ pc = "call"
    /\ arg \in [sid : ShortIds, node : [shape : NodeShapes, label : NodeLabels]]
    /\ ret = NoOutput
    /\ doc = NoDoc
    /\ graph = NoResult
    /\ out = NoOutput

RenderNode ==
    /\ pc = "call"
    /\ ret' = renderNode(arg.sid, arg.node)
    /\ pc' = "returned"
    /\ UNCHANGED <<arg, doc, graph, out>>

NextRenderNode == RenderNode

SpecRenderNode == InitRenderNode /\ [][NextRenderNode]_vars

\* the opening and the closing bracket of a shape
Brackets(shape) ==
    CASE shape = "rectangle" -> <<<<"[">>, <<"]">>>>
      [] shape = "rounded" -> <<<<"(">>, <<")">>>>
      [] shape = "diamond" -> <<<<"{">>, <<"}">>>>
      [] shape = "circle" -> <<<<"(", "(">>, <<")", ")">>>>
      [] shape = "subroutine" -> <<<<"[", "[">>, <<"]", "]">>>>
      [] OTHER -> <<<<"[">>, <<"]">>>>

(***************************************************************************)
(* C16: renderNode returns the short id followed by the quoted label       *)
(* between the brackets of the shape: [x] for rectangle, (x) for rounded,  *)
(* {x} for diamond, ((x)) for circle, [[x]] for subroutine and [x] for any *)
(* other shape.  For an empty label the short id is the label, so that the *)
(* text between the brackets is never empty and never the pair "".         *)
(***************************************************************************)
C16_RenderNode ==
    pc = "returned" =>
        LET label == IF arg.node.label.t = "str" /\ arg.node.label.s # <<>>
                     THEN arg.node.label ELSE Str(arg.sid)
            inner == quoteLabel(label).value
            pair == Brackets(arg.node.shape)
        IN  /\ ~ret.threw
            /\ ret.value = arg.sid \o pair[1] \o inner \o pair[2]
            /\ inner # <<>>
            /\ inner # <<"\"", "\"">>

\* a circle without label was declared with its short id as its label
C16_Witness ==
    /\ pc = "returned"
    /\ arg.node = [shape |-> "circle", label |-> Str(<<>>)]
    /\ arg.sid = <<"A", "A">>
    /\ ret.value = <<"A", "A", "(", "(", "A", "A", ")", ")">>

(***************************************************************************)
(* toMermaid on a graph built by hand                                      *)
(***************************************************************************)
MaxRenderEdges == 2

RenderStyles == {"arrow", "line", "dotted", "dotted-line", "thick", "thick-line", "wavy"}

\* edges between the nodes a and b in every style, without and with a label
\* that needs quotes, and edges with an end that is no node of the graph
RenderEdgePool ==
    {[source |-> ida, target |-> idb, label |-> l, style |-> s] :
        l \in {Str(<<>>), Str(<<"p", "|", "q">>)}, s \in RenderStyles}
    \cup {[source |-> ida, target |-> Str(<<"z">>), label |-> Str(<<>>), style |-> "arrow"],
          [source |-> Str(<<"z">>), target |-> idb, label |-> Str(<<"Y">>), style |-> "thick"],
          [source |-> idb, target |-> ida, label |-> Str(<<"Y">>), style |-> "line"]}

RenderNodeA == [k |-> ida, v |-> [id |-> ida, label |-> Str(<<"S">>), shape |-> "rectangle"]]

RenderNodeB == [k |-> idb, v |-> [id |-> idb, label |-> Str(<<>>), shape |-> "diamond"]]

RenderGroupG ==
    [k |-> idg, v |-> [id |-> idg, label |-> Str(<<"G">>), members |-> <<idb>>]]

\* both nodes, both nodes with b in a group, and the node a alone
RenderGraphs ==
    {[nodes |-> n.nodes, edges |-> e, groups |-> n.groups, direction |-> "LR"] :
        n \in {[nodes |-> <<RenderNodeA, RenderNodeB>>, groups |-> <<>>],
               [nodes |-> <<RenderNodeA, RenderNodeB>>, groups |-> <<RenderGroupG>>],
               [nodes |-> <<RenderNodeA>>, groups |-> <<>>]},
        e \in UNION {[1..k -> RenderEdgePool] : k \in 0..MaxRenderEdges}}

InitToMermaid ==
    /\ pc = "call"
    /\ arg \in RenderGraphs
    /\ ret = NoOutput
    /\ doc = NoDoc
    /\ graph = NoResult
    /\ out = NoOutput

CallToMermaid ==
    /\ pc = "call"
    /\ ret' = toMermaid(arg, NoOptions)
    /\ pc' = "returned"
    /\ UNCHANGED <<arg, doc, graph, out>>

NextToMermaid == CallToMermaid

SpecToMermaid == InitToMermaid /\ [][NextToMermaid]_vars

\* the short id of a node: that of its position in the node map
ShortIdOf(nodes, id) == shortId(MapIndex(nodes, id) - 1)

ConnectorOf(style) ==
    CASE style = "arrow" -> <<"-", "-", ">">>
      [] style = "line" -> <<"-", "-", "-">>
      [] style = "dotted" -> <<"-", ".", "-", ">">>
      [] style = "dotted-line" -> <<"-", ".", "-">>
      [] style = "thick" -> <<"=", "=", ">">>
      [] style = "thick-line" -> <<"=", "=", "=">>
      [] OTHER -> <<"-", "-", ">">>

\* the line of an edge whose two ends are nodes
EdgeLine(nodes, edge) ==
    Indent \o ShortIdOf(nodes, edge.source) \o <<" ">> \o ConnectorOf(edge.style)
    \o (IF edge.label.t = "str" /\ edge.label.s # <<>>
        THEN <<"|">> \o quoteLabel(edge.label).value \o <<"|", " ">>
        ELSE <<" ">>)
    \o ShortIdOf(nodes, edge.target)

(***************************************************************************)
(* C17: toMermaid emits, for each edge whose source and target both have a *)
(* short id, in edge order, exactly one line "src connector tgt", or       *)
(* "src connector|quotedLabel| tgt" when the label is not empty, after the *)
(* header, the node declarations and the subgraph blocks; the connector is *)
(* --> for arrow, --- for line, -.-> for dotted, -.- for dotted-line, ==>  *)
(* for thick, === for thick-line and --> for any other style.  An edge     *)
(* with an end that has no short id produces no line.                      *)
(***************************************************************************)
C17_EdgeLines ==
    pc = "returned" =>
        LET lines == SplitLines(ret.value, <<>>)
            drawn == SelectSeq(arg.edges, LAMBDA e :
                         MapHas(arg.nodes, e.source) /\ MapHas(arg.nodes, e.target))
            before == 1 + Len(arg.nodes) + 2 * Len(arg.groups)
        IN  /\ ~ret.threw
            /\ Len(lines) = before + Len(drawn)
            /\ \A i \in 1..Len(drawn) : lines[before + i] = EdgeLine(arg.nodes, drawn[i])

\* a dotted edge with a label was drawn and an edge to a missing node was not
C17_Witness ==
    /\ pc = "returned"
    /\ Len(arg.edges) = 2
    /\ arg.edges[1].target = Str(<<"z">>)
    /\ arg.edges[2].style = "dotted"
    /\ SplitLines(ret.value, <<>>) =
          << <<"g", "r", "a", "p", "h", " ", "L", "R">>,
             Indent \o <<"A", "[", "S", "]">>,
             Indent \o <<"B", "{", "B", "}">>,
             Indent \o <<"A", " ", "-", ".", "-", ">", "|", "\"", "p", "|", "q", "\"", "|", " ", "B">> >>

(***************************************************************************)
(* index.js                                                                *)
(***************************************************************************)
NoConversion == [mermaid |-> <<>>, nodeCount |-> 0, edgeCount |-> 0, direction |-> "undefined"]

\* what a run put out: console.log and process.stdout.write, console.error,
\* the calls of convertFile it started, and the files it left behind
NoEffects == [stdout |-> <<>>, stderr |-> <<>>, calls |-> <<>>, files |-> <<>>]

\* before convert has returned
NoReturn == [threw |-> FALSE, value |-> NoConversion, files |-> <<>>]

\* the override left out of the returned direction
resultDirectionInferred(options, g) == g.direction

\* options.direction || graph.direction
resultDirection(options, g) ==
    IF options.direction \notin {"undefined", ""} THEN options.direction ELSE g.direction

\* the output file never written
hasOutputNever(options) == FALSE

\* if (options.output)
hasOutput(options) == Truthy(options.output)

\* convert(doc, options) on the files given: what it returns or that it
\* threw, and the files after it
convert(d, options, files) ==
    LET g == parseDocument(d)
        mermaid == toMermaid(g.value, [direction |-> options.direction])
    IN  IF g.threw \/ mermaid.threw
        THEN [threw |-> TRUE, value |-> NoConversion, files |-> files]
        ELSE [threw |-> FALSE,
              value |-> [mermaid |-> mermaid.value,
                         nodeCount |-> Len(g.value.nodes),
                         edgeCount |-> Len(g.value.edges),
                         direction |-> resultDirection(options, g.value)],
              files |-> IF hasOutput(options)
                        THEN MapSet(files, options.output.s, mermaid.value)
                        ELSE files]

\* nodes in a row and in a column, in one group, with an arrow, a line and a
\* bound text
ConvertPool ==
    {Shape("rectangle", ida, 0, 0, <<idg>>),
     Shape("diamond", idb, 300, 0, <<idg>>),
     Shape("ellipse", idc, 0, 300, <<>>),
     Text(idt, ida, Str(<<"H", "i">>)),
     Arrow("arrow", ide, BoundTo(ida), BoundTo(idb), "arrow"),
     Arrow("line", Str(<<"l">>), BoundTo(idc), BoundTo(ida), "null")}

ConvertDocs == {Doc(Array(l)) : l \in Lists(ConvertPool)}

\* no override, the four directions of the documentation, and TB
Directions == {"undefined", "TD", "LR", "BT", "RL", "TB"}

OutputFile == <<"o", ".", "m", "d">>

ConvertCalls ==
    {[call |-> "convert", options |-> [direction |-> d, output |-> o]] :
        d \in Directions, o \in {Undef, Str(OutputFile)}}

InitConvert ==
    /\ pc = "ready"
    /\ doc \in ConvertDocs
    /\ arg \in ConvertCalls
    /\ graph = NoResult
    /\ out = NoEffects
    /\ ret = NoReturn

Convert ==
    /\ pc = "ready"
    /\ arg.call = "convert"
    /\ ret' = convert(doc, arg.options, out.files)
    /\ out' = [out EXCEPT !.files = ret'.files]
    /\ pc' = IF ret'.threw THEN "threw" ELSE "converted"
    /\ graph' = parseDocument(doc)
    /\ UNCHANGED <<doc, arg>>

NextConvert == Convert

SpecConvert == InitConvert /\ [][NextConvert]_vars

\* the first line of a text and the lines after it
HeaderOf(text) == Head(SplitLines(text, <<>>))

BodyOf(text) == Tail(SplitLines(text, <<>>))

GraphHeader(d) == <<"g", "r", "a", "p", "h", " ">> \o DirChars(d)

(***************************************************************************)
(* C18: the first line of the text convert returns is graph <dir>, and     *)
(* <dir> is the direction convert returns: options.direction when one is   *)
(* given, else the direction parseDocument inferred.  The override changes *)
(* nothing else: the lines after the first, nodeCount and edgeCount are    *)
(* those of the conversion without override.                               *)
(***************************************************************************)
C18_DirectionOverride ==
    pc = "converted" =>
        LET given == arg.options.direction
            effective == IF given # "undefined" THEN given ELSE graph.value.direction
            plain == convert(doc, [arg.options EXCEPT !.direction = "undefined"], <<>>)
        IN  /\ HeaderOf(ret.value.mermaid) = GraphHeader(effective)
            /\ ret.value.direction = effective
            /\ BodyOf(ret.value.mermaid) = BodyOf(plain.value.mermaid)
            /\ ret.value.nodeCount = plain.value.nodeCount
            /\ ret.value.edgeCount = plain.value.edgeCount
            /\ ret.value.nodeCount = Len(graph.value.nodes)
            /\ ret.value.edgeCount = Len(graph.value.edges)

\* a flow inferred left to right was converted with the override BT, and
\* its declarations and its edge line are there
C18_Witness ==
    /\ pc = "converted"
    /\ graph.value.direction = "LR"
    /\ arg.options.direction = "BT"
    /\ ret.value.direction = "BT"
    /\ ret.value.nodeCount = 2
    /\ ret.value.edgeCount = 1
    /\ HeaderOf(ret.value.mermaid) = <<"g", "r", "a", "p", "h", " ", "B", "T">>

(***************************************************************************)
(* cli.js                                                                  *)
(***************************************************************************)
LowerLetters ==
    <<"a", "b", "c", "d", "e", "f", "g", "h", "i", "j", "k", "l", "m",
      "n", "o", "p", "q", "r", "s", "t", "u", "v", "w", "x", "y", "z">>

\* direction.toUpperCase()
toUpperCase(chars) ==
    [i \in 1..Len(chars) |->
        IF \E j \in 1..26 : LowerLetters[j] = chars[i]
        THEN Letters[CHOOSE j \in 1..26 : LowerLetters[j] = chars[i]]
        ELSE chars[i]]

\* ["TD", "LR", "BT", "RL", "TB"]
AcceptedDirections == {"TD", "LR", "BT", "RL", "TB"}

\* the direction token with these characters
DirToken(chars) == CHOOSE d \in AcceptedDirections : DirChars(d) = chars

Cwd == <<"/", "w">>

\* path.resolve(path) in the working directory
resolve(path) ==
    IF path # <<>> /\ Head(path) = "/" THEN path ELSE Cwd \o <<"/">> \o path

\* args[i], undefined beyond the end
argAt(args, i) == IF i <= Len(args) THEN Str(args[i]) ELSE Undef

\* process.exit(code) after what was written so far
exit(st, code) == [st EXCEPT !.exited = TRUE, !.exitCode = code]

\* console.log and process.stdout.write
log(st, kind, value) == [st EXCEPT !.stdout = Append(@, [kind |-> kind, value |-> value])]

\* console.error
error(st, kind, value) == [st EXCEPT !.stderr = Append(@, [kind |-> kind, value |-> value])]

\* a TB given on the command line kept as it is
aliasNone(direction) == direction

\* if (direction === "TB") direction = "TD"
aliasTB(direction) == IF direction = "TB" THEN "TD" ELSE direction

\* the long form of the flag forgotten
isHelpShortOnly(a) == a = <<"-", "h">>

\* case "-h": case "--help":
isHelp(a) == a \in {<<"-", "h">>, <<"-", "-", "h", "e", "l", "p">>}

\* for (let i = 0; i < args.length; i++) switch (arg)
RECURSIVE argsLoop(_, _, _)
argsLoop(args, i, st) ==
    IF i > Len(args) THEN st
    ELSE LET a == args[i]
             value == argAt(args, i + 1)
         IN  IF isHelp(a)
             THEN exit(log(st, "help", <<>>), 0)
             ELSE IF a \in {<<"-", "v">>, <<"-", "-", "v", "e", "r", "s", "i", "o", "n">>}
             THEN exit(log(st, "version", <<>>), 0)
             ELSE IF a \in {<<"-", "o">>, <<"-", "-", "o", "u", "t", "p", "u", "t">>}
             THEN IF ~Truthy(value)
                  THEN exit(error(st, "--output requires a file path", <<>>), 1)
                  ELSE argsLoop(args, i + 2, [st EXCEPT !.outputPath = value])
             ELSE IF a \in {<<"-", "d">>, <<"-", "-", "d", "i", "r", "e", "c", "t", "i", "o", "n">>}
             THEN IF ~Truthy(value)
                     \/ \A d \in AcceptedDirections : DirChars(d) # toUpperCase(value.s)
                  THEN exit(error(st, "--direction must be TD, LR, BT, or RL", <<>>), 1)
                  ELSE argsLoop(args, i + 2,
                         [st EXCEPT !.direction = aliasTB(DirToken(toUpperCase(value.s)))])
             ELSE IF a = <<"-", "-", "j", "s", "o", "n">>
             THEN argsLoop(args, i + 1, [st EXCEPT !.jsonOutput = TRUE])
             ELSE IF a # <<>> /\ Head(a) = "-"
             THEN exit(error(st, "Unknown option", a), 1)
             ELSE argsLoop(args, i + 1, [st EXCEPT !.inputPath = Str(a)])

\* the contents of a file: JSON text, by the document it parses to, or text
\* that JSON.parse rejects
JsonFile(d) == [json |-> TRUE, doc |-> d]

NotJsonFile == [json |-> FALSE, doc |-> Doc(Array(<<>>))]

\* convertFile(inputPath, options): readFileSync, JSON.parse, convert
convertFile(inputPath, options, files) ==
    LET raw == MapGet(files, inputPath)
    IN  IF ~raw.json THEN [threw |-> TRUE, value |-> NoConversion, files |-> files]
        ELSE convert(raw.doc, options, files)

\* the key output put in whether or not there is an output path
resultJsonWithOutput(result, outputPath) ==
    <<[k |-> "mermaid", v |-> result.mermaid],
      [k |-> "nodeCount", v |-> result.nodeCount],
      [k |-> "edgeCount", v |-> result.edgeCount],
      [k |-> "direction", v |-> result.direction],
      [k |-> "output", v |-> IF Truthy(outputPath) THEN resolve(outputPath.s) ELSE <<>>]>>

\* JSON.stringify({mermaid, nodeCount, edgeCount, direction, ...output}): the
\* keys and their values
resultJson(result, outputPath) ==
    <<[k |-> "mermaid", v |-> result.mermaid],
      [k |-> "nodeCount", v |-> result.nodeCount],
      [k |-> "edgeCount", v |-> result.edgeCount],
      [k |-> "direction", v |-> result.direction]>>
    \o (IF Truthy(outputPath) THEN <<[k |-> "output", v |-> resolve(outputPath.s)]>> ELSE <<>>)

\* the state of main before the first argument
MainStart(files) ==
    [inputPath |-> Null, outputPath |-> Null, direction |-> "null", jsonOutput |-> FALSE,
     exited |-> FALSE, exitCode |-> 0,
     stdout |-> <<>>, stderr |-> <<>>, calls |-> <<>>, files |-> files]

\* if (direction) options.direction = direction;
\* if (outputPath) options.output = resolve(outputPath)
optionsOf(st) ==
    [direction |-> IF st.direction = "null" THEN "undefined" ELSE st.direction,
     output |-> IF Truthy(st.outputPath) THEN Str(resolve(st.outputPath.s)) ELSE Undef]

\* what follows convertFile: the catch block, or one of the three outputs
\* and the end of main, which ends the process with code 0
report(st, result) ==
    IF result.threw THEN exit(error(st, "Error", <<>>), 1)
    ELSE IF st.jsonOutput
    THEN exit(log(st, "json", resultJson(result.value, st.outputPath)), 0)
    ELSE IF Truthy(st.outputPath)
    THEN exit(log(st, "summary",
                  [nodeCount |-> result.value.nodeCount,
                   edgeCount |-> result.value.edgeCount,
                   outputPath |-> st.outputPath.s]), 0)
    ELSE exit(log(st, "mermaid", result.value.mermaid), 0)

\* const result = convertFile(resolved, options), and the files it leaves
called(st, resolved, result) ==
    [st EXCEPT !.calls = Append(@, [inputPath |-> resolved, options |-> optionsOf(st)]),
               !.files = result.files]

\* the try block
try(st, resolved) ==
    report(called(st, resolved, convertFile(resolved, optionsOf(st), st.files)),
           convertFile(resolved, optionsOf(st), st.files))

\* main after the argument loop
afterArgs(st) ==
    IF st.exited THEN st
    ELSE IF ~Truthy(st.inputPath)
    THEN exit(log(error(st, "No input file specified", <<>>), "help", <<>>), 1)
    ELSE IF ~MapHas(st.files, resolve(st.inputPath.s))
    THEN exit(error(st, "File not found", resolve(st.inputPath.s)), 1)
    ELSE try(st, resolve(st.inputPath.s))

\* main() on the arguments after the script name and the files given
main(args, files) ==
    IF Len(args) = 0 THEN exit(log(MainStart(files), "help", <<>>), 1)
    ELSE afterArgs(argsLoop(args, 1, MainStart(files)))

(***************************************************************************)
(* The command line, next to a direct call of convert                      *)
(***************************************************************************)
MaxArgs == 3

\* every flag in its short and long form, an unknown flag, the input file,
\* a file that does not exist (an output file when it follows -o), and
\* direction values
ArgPool ==
    {<<"-", "h">>,
     <<"-", "-", "h", "e", "l", "p">>,
     <<"-", "v">>,
     <<"-", "-", "v", "e", "r", "s", "i", "o", "n">>,
     <<"-", "o">>,
     <<"-", "-", "o", "u", "t", "p", "u", "t">>,
     <<"-", "d">>,
     <<"-", "-", "d", "i", "r", "e", "c", "t", "i", "o", "n">>,
     <<"-", "-", "j", "s", "o", "n">>,
     <<"-", "x">>,
     <<"i", "n">>,
     <<"n", "o">>,
     <<"t", "b">>,
     <<"T", "B">>,
     <<"l", "r">>}

\* longer runs: every flag of a conversion at once, in two orders
LongArgLists ==
    {<<<<"i", "n">>, <<"-", "o">>, <<"n", "o">>, <<"-", "-", "j", "s", "o", "n">>>>,
     <<<<"-", "-", "j", "s", "o", "n">>, <<"-", "-", "o", "u", "t", "p", "u", "t">>, <<"n", "o">>, <<"i", "n">>>>,
     <<<<"i", "n">>, <<"-", "-", "j", "s", "o", "n">>, <<"-", "d">>, <<"t", "b">>, <<"-", "o">>, <<"n", "o">>>>,
     <<<<"-", "d">>, <<"l", "r">>, <<"-", "o">>, <<"n", "o">>, <<"i", "n">>, <<"i", "n">>>>}

ArgLists == UNION {[1..n -> ArgPool] : n \in 0..MaxArgs} \cup LongArgLists

InputFile == <<"i", "n">>

\* a flow from left to right and a flow from top to bottom
FlowDoc ==
    Doc(Array(<<Shape("rectangle", ida, 0, 0, <<>>),
                Shape("diamond", idb, 300, 0, <<>>),
                Arrow("arrow", ide, BoundTo(ida), BoundTo(idb), "arrow")>>))

ColumnDoc ==
    Doc(Array(<<Shape("ellipse", idc, 0, 300, <<>>),
                Shape("rectangle", ida, 0, 0, <<>>),
                Text(idt, ida, Str(<<"H", "i">>)),
                Arrow("line", Str(<<"l">>), BoundTo(ida), BoundTo(idc), "null")>>))

CliDocs == {FlowDoc, ColumnDoc}

\* the input file holds one of the documents, or no JSON at all
CliFiles ==
    {<<[k |-> resolve(InputFile), v |-> c]>> :
        c \in {JsonFile(d) : d \in CliDocs} \cup {NotJsonFile}}

MainCalls == {[call |-> "main", argv |-> a, files |-> f] : a \in ArgLists, f \in CliFiles}

InitCli ==
    /\ pc = "ready"
    /\ arg \in MainCalls \cup ConvertCalls
    /\ doc \in IF arg.call = "main" THEN {arg.files[1].v.doc} ELSE CliDocs
    /\ graph = NoResult
    /\ out = IF arg.call = "main" THEN MainStart(arg.files) ELSE NoEffects
    /\ ret = NoReturn

Main ==
    /\ pc = "ready"
    /\ arg.call = "main"
    /\ out' = main(arg.argv, arg.files)
    /\ ret' = [exitCode |-> out'.exitCode]
    /\ pc' = "exited"
    /\ UNCHANGED <<doc, graph, arg>>

NextCli == Main \/ Convert

SpecCli == InitCli /\ [][NextCli]_vars

ValueFlags ==
    {<<"-", "o">>, <<"-", "-", "o", "u", "t", "p", "u", "t">>, <<"-", "d">>, <<"-", "-", "d", "i", "r", "e", "c", "t", "i", "o", "n">>}

DirectionFlags == {<<"-", "d">>, <<"-", "-", "d", "i", "r", "e", "c", "t", "i", "o", "n">>}

StopFlags ==
    {<<"-", "h">>, <<"-", "-", "h", "e", "l", "p">>, <<"-", "v">>, <<"-", "-", "v", "e", "r", "s", "i", "o", "n">>}

KnownFlags == ValueFlags \cup StopFlags \cup {<<"-", "-", "j", "s", "o", "n">>}

\* the positions read as a flag or an input path, not as the value of a flag
RECURSIVE OptionPositions(_, _)
OptionPositions(args, i) ==
    IF i > Len(args) THEN {}
    ELSE {i} \cup OptionPositions(args, IF args[i] \in ValueFlags THEN i + 2 ELSE i + 1)

\* the spellings of a two-letter token in any letter case
Spellings(u1, l1, u2, l2) == {<<a, b>> : a \in {u1, l1}, b \in {u2, l2}}

TBSpellings == Spellings("T", "t", "B", "b")

DirectionSpellings ==
    Spellings("T", "t", "D", "d") \cup Spellings("L", "l", "R", "r")
    \cup Spellings("B", "b", "T", "t") \cup Spellings("R", "r", "L", "l") \cup TBSpellings

\* the last direction flag read as a flag has a spelling of TB as its value
RequestsTB(args) ==
    LET flags == {i \in OptionPositions(args, 1) : args[i] \in DirectionFlags}
        last == CHOOSE i \in flags : \A j \in flags : j <= i
    IN  flags # {} /\ last < Len(args) /\ args[last + 1] \in TBSpellings

\* the markup a successful run put out: on stdout, in the JSON object, or in
\* the output file
EmittedMermaid ==
    LET e == out.stdout[1]
    IN  CASE e.kind = "mermaid" -> e.value
          [] e.kind = "json" -> MapGet(e.value, "mermaid")
          [] e.kind = "summary" -> MapGet(out.files, resolve(e.value.outputPath))

Converted == pc = "exited" /\ ret.exitCode = 0 /\ out.calls # <<>>

\* a run of the command line with TB as its direction, in any letter case,
\* puts out the header graph TD and reports the direction TD
TBOnCommandLineIsTD ==
    (arg.call = "main" /\ Converted /\ RequestsTB(arg.argv)) =>
        /\ out.calls[1].options.direction = "TD"
        /\ HeaderOf(EmittedMermaid) = GraphHeader("TD")
        /\ out.stdout[1].kind = "json" => MapGet(out.stdout[1].value, "direction") = "TD"

(***************************************************************************)
(* C19, as the code has it: TB is an alias for TD on the command line      *)
(* only.  A run with -d or --direction TB, in any letter case, puts out    *)
(* the header graph TD and reports the direction TD; convert called with   *)
(* options.direction TB passes it on unchanged, so that the header is      *)
(* graph TB and the returned direction TB.                                 *)
(***************************************************************************)
C19_TBAliasOnCommandLine ==
    /\ TBOnCommandLineIsTD
    /\ (arg.call = "convert" /\ pc = "converted" /\ arg.options.direction = "TB") =>
          /\ HeaderOf(ret.value.mermaid) = GraphHeader("TB")
          /\ ret.value.direction = "TB"

(***************************************************************************)
(* C19, as stated: a conversion asked for with the direction TB, through   *)
(* options.direction of convert or through -d or --direction in any letter *)
(* case, puts out the header graph TD and reports the direction TD.        *)
(***************************************************************************)
C19_TBIsTDEverywhere ==
    /\ TBOnCommandLineIsTD
    /\ (arg.call = "convert" /\ pc = "converted" /\ arg.options.direction = "TB") =>
          /\ HeaderOf(ret.value.mermaid) = GraphHeader("TD")
          /\ ret.value.direction = "TD"

\* the run "in -d tb" wrote a text with the header graph TD to stdout
C19_Witness ==
    /\ pc = "exited"
    /\ arg.argv = <<InputFile, <<"-", "d">>, <<"t", "b">>>>
    /\ ret.exitCode = 0
    /\ out.stdout[1].kind = "mermaid"
    /\ HeaderOf(out.stdout[1].value) = <<"g", "r", "a", "p", "h", " ", "T", "D">>

\* a usage error at a position: an unknown flag, -o without a file path, -d
\* without a direction or with one that is none
UsageErrorAt(args, i) ==
    \/ args[i] \notin KnownFlags /\ args[i] # <<>> /\ Head(args[i]) = "-"
    \/ args[i] \in ValueFlags /\ (i = Len(args) \/ args[i + 1] = <<>>)
    \/ args[i] \in DirectionFlags /\ i < Len(args) /\ args[i + 1] \notin DirectionSpellings

\* the argument loop reaches a help or version flag: it stands at a position
\* read as a flag, and no usage error and no such flag stands before it
ReachesStopFlag(args) ==
    \E i \in OptionPositions(args, 1) :
        /\ args[i] \in StopFlags
        /\ \A j \in OptionPositions(args, 1) :
              j < i => ~UsageErrorAt(args, j) /\ args[j] \notin StopFlags

(***************************************************************************)
(* C20, as the code has it: a help or version flag that the argument loop  *)
(* reaches (no usage error before it, and not taken as the value of a      *)
(* preceding -o or -d) ends the run with exit code 0, and at no time of    *)
(* such a run is a conversion started or a file written.                   *)
(***************************************************************************)
C20_HelpVersionShortCircuit ==
    (arg.call = "main" /\ ReachesStopFlag(arg.argv)) =>
        /\ out.calls = <<>>
        /\ out.files = arg.files
        /\ pc = "exited" =>
              /\ ret.exitCode = 0
              /\ out.stderr = <<>>
              /\ Len(out.stdout) = 1
              /\ out.stdout[1].kind \in {"help", "version"}

(***************************************************************************)
(* C20, as stated: for every argument list in which -v, --version, -h or   *)
(* --help occurs, the run ends with exit code 0 and no conversion is ever  *)
(* started.                                                                *)
(***************************************************************************)
C20_AnyOccurrenceShortCircuits ==
    (arg.call = "main" /\ \E i \in 1..Len(arg.argv) : arg.argv[i] \in StopFlags) =>
        /\ out.calls = <<>>
        /\ pc = "exited" => ret.exitCode = 0

\* the run "in --json --help" printed the help and ended with 0 without
\* converting the input file
C20_Witness ==
    /\ pc = "exited"
    /\ arg.argv = <<InputFile, <<"-", "-", "j", "s", "o", "n">>, <<"-", "-", "h", "e", "l", "p">>>>
    /\ ret.exitCode = 0
    /\ out.calls = <<>>
    /\ out.stdout = <<[kind |-> "help", value |-> <<>>]>>

\* the positions read as an input path
Positionals(args) ==
    {i \in OptionPositions(args, 1) : args[i] = <<>> \/ Head(args[i]) # "-"}

\* the argument loop runs to its end: no usage error and no help or version
\* flag at a position read as a flag
LoopCompletes(args) ==
    \A i \in OptionPositions(args, 1) : ~UsageErrorAt(args, i) /\ args[i] \notin StopFlags

\* the input path the loop leaves: the last argument read as one
LastPositional(args) ==
    args[CHOOSE i \in Positionals(args) : \A j \in Positionals(args) : j <= i]

\* the first position at which the loop stops is a usage error named by the
\* claim: an unknown flag, or a direction flag without a valid direction
StopsAtUsageError(args) ==
    \E i \in OptionPositions(args, 1) :
        /\ \/ args[i] \notin KnownFlags /\ args[i] # <<>> /\ Head(args[i]) = "-"
           \/ args[i] \in DirectionFlags
              /\ (i = Len(args) \/ args[i + 1] \notin DirectionSpellings)
        /\ \A j \in OptionPositions(args, 1) :
              j < i => ~UsageErrorAt(args, j) /\ args[j] \notin StopFlags

\* the loop runs to its end and leaves no input path, or one of no file
InputMissing(args, files) ==
    /\ LoopCompletes(args)
    /\ \/ Positionals(args) = {}
       \/ LastPositional(args) = <<>>
       \/ ~MapHas(files, Cwd \o <<"/">> \o LastPositional(args))

UsageError(args, files) ==
    args = <<>> \/ StopsAtUsageError(args) \/ InputMissing(args, files)

(***************************************************************************)
(* C21: every usage error ends the run without touching the core: when     *)
(* the input path is missing (the empty argument list included), the input *)
(* file does not exist, the value of -d or --direction is missing or none  *)
(* of TD, LR, BT, RL, TB, or an unknown flag is given, the run reports the *)
(* error on the error stream and ends with exit code 1, convertFile is not *)
(* called and no file is written.                                          *)
(***************************************************************************)
C21_UsageErrorsFatal ==
    (arg.call = "main" /\ UsageError(arg.argv, arg.files)) =>
        /\ out.calls = <<>>
        /\ out.files = arg.files
        /\ pc = "exited" => ret.exitCode = 1 /\ out.stderr # <<>>

\* --json stands at a position read as a flag
JsonRequested(args) ==
    \E i \in OptionPositions(args, 1) : args[i] = <<"-", "-", "j", "s", "o", "n">>

OutputFlags == {<<"-", "o">>, <<"-", "-", "o", "u", "t", "p", "u", "t">>}

OutputRequested(args) == \E i \in OptionPositions(args, 1) : args[i] \in OutputFlags

\* the value of the last output flag read as a flag
RequestedOutput(args) ==
    LET flags == {i \in OptionPositions(args, 1) : args[i] \in OutputFlags}
    IN  args[(CHOOSE i \in flags : \A j \in flags : j <= i) + 1]

\* what convert returns for the document of the input file and the options
\* of the run
ExpectedResult == convert(doc, out.calls[1].options, <<>>).value

(***************************************************************************)
(* C22: a successful run of the command line writes exactly one thing to   *)
(* the primary output stream.  With --json it is the object with the keys  *)
(* mermaid, nodeCount, edgeCount and direction, and the key output if and  *)
(* only if an output path was given; else, with an output path, a summary  *)
(* and not the markup; else the markup.  The markup is written to a file   *)
(* if and only if an output path was given.                                *)
(***************************************************************************)
C22_OneOutputByFlags ==
    (arg.call = "main" /\ Converted) =>
        LET args == arg.argv
            e == out.stdout[1]
            expected == ExpectedResult
            path == Cwd \o <<"/">> \o RequestedOutput(args)
        IN  /\ Len(out.stdout) = 1
            /\ out.stderr = <<>>
            /\ IF JsonRequested(args)
               THEN /\ e.kind = "json"
                    /\ MapKeys(e.value) =
                          <<"mermaid", "nodeCount", "edgeCount", "direction">>
                          \o (IF OutputRequested(args) THEN <<"output">> ELSE <<>>)
                    /\ MapGet(e.value, "mermaid") = expected.mermaid
                    /\ MapGet(e.value, "nodeCount") = expected.nodeCount
                    /\ MapGet(e.value, "edgeCount") = expected.edgeCount
                    /\ MapGet(e.value, "direction") = expected.direction
                    /\ OutputRequested(args) => MapGet(e.value, "output") = path
               ELSE IF OutputRequested(args)
               THEN /\ e.kind = "summary"
                    /\ e.value = [nodeCount |-> expected.nodeCount,
                                  edgeCount |-> expected.edgeCount,
                                  outputPath |-> RequestedOutput(args)]
               ELSE e.kind = "mermaid" /\ e.value = expected.mermaid
            /\ IF OutputRequested(args)
               THEN out.files = MapSet(arg.files, path, expected.mermaid)
               ELSE out.files = arg.files

\* the run "in -o no --json" printed the object with the key output and
\* wrote the markup to the file no
C22_Witness ==
    /\ pc = "exited"
    /\ arg.argv = <<<<"i", "n">>, <<"-", "o">>, <<"n", "o">>, <<"-", "-", "j", "s", "o", "n">>>>
    /\ ret.exitCode = 0
    /\ out.stdout[1].kind = "json"
    /\ Len(out.stdout[1].value) = 5
    /\ MapGet(out.files, <<"/", "w", "/", "n", "o">>) = MapGet(out.stdout[1].value, "mermaid")

(***************************************************************************)
(* C23: the only thing convert leaves behind is the output file.  With     *)
(* options.output the contents of that file are the returned markup, which *)
(* is the markup a call without options.output returns for the same        *)
(* document and direction, and no other file is written; without           *)
(* options.output convert writes nothing.                                  *)
(***************************************************************************)
C23_OnlyOutputFileWritten ==
    (arg.call = "convert" /\ pc = "converted") =>
        LET plain == convert(doc, [arg.options EXCEPT !.output = Undef], <<>>)
        IN  /\ plain.files = <<>>
            /\ ret.value = plain.value
            /\ IF arg.options.output.t = "str" /\ arg.options.output.s # <<>>
               THEN out.files = <<[k |-> arg.options.output.s, v |-> ret.value.mermaid]>>
               ELSE out.files = <<>>

\* a flow with an edge was converted and its markup written to o.md
C23_Witness ==
    /\ arg.call = "convert"
    /\ pc = "converted"
    /\ ret.value.edgeCount = 1
    /\ MapHas(out.files, OutputFile)
    /\ MapGet(out.files, OutputFile) = ret.value.mermaid
    /\ Len(ret.value.mermaid) > 9

(***************************************************************************)
(* Sequences of convert calls                                              *)
(*                                                                         *)
(* The modules keep no variable between calls: NODE_TYPES, EDGE_TYPES and  *)
(* NEEDS_QUOTES are constants (the regular expression has no g or y flag,  *)
(* so test leaves no lastIndex behind), and idMap, groupedNodes,           *)
(* renderedNodes and lines are created inside toMermaid.  out.calls is the *)
(* history of the calls made: the document and options of each, and what   *)
(* it returned.                                                            *)
(***************************************************************************)
MaxCalls == 3

SingleDoc == Doc(Array(<<Shape("ellipse", idc, 0, 300, <<>>)>>))

SeqDocs == {FlowDoc, ColumnDoc, SingleDoc}

SeqCalls ==
    {[call |-> "convert", options |-> [direction |-> d, output |-> o]] :
        d \in {"undefined", "BT"}, o \in {Undef, Str(OutputFile)}}

InitSeq ==
    /\ pc = "ready"
    /\ doc \in SeqDocs
    /\ arg \in SeqCalls
    /\ graph = NoResult
    /\ out = NoEffects
    /\ ret = NoReturn

\* one call of convert on the document and options at hand
ConvertInSequence ==
    /\ pc = "ready"
    /\ ret' = convert(doc, arg.options, out.files)
    /\ out' = [out EXCEPT !.files = ret'.files,
                          !.calls = Append(@, [doc |-> doc, options |-> arg.options,
                                               threw |-> ret'.threw, value |-> ret'.value])]
    /\ pc' = IF ret'.threw THEN "threw" ELSE "converted"
    /\ graph' = parseDocument(doc)
    /\ UNCHANGED <<doc, arg>>

\* the caller comes back with another document and other options
NextCall ==
    /\ pc \in {"converted", "threw"}
    /\ Len(out.calls) < MaxCalls
    /\ doc' \in SeqDocs
    /\ arg' \in SeqCalls
    /\ pc' = "ready"
    /\ UNCHANGED <<graph, out, ret>>

NextSeq == ConvertInSequence \/ NextCall

SpecSeq == InitSeq /\ [][NextSeq]_vars

\* the lines of a returned markup
LinesOf(mermaid) == SplitLines(mermaid, <<>>)

OrderPool ==
    {Shape("rectangle", ida, 0, 0, <<idg>>),
     Shape("diamond", idb, 300, 0, <<idg, idh>>),
     Shape("ellipse", idc, 0, 300, <<>>),
     Frame(idf, Str(<<"F", "r">>), -50, -50, 200, 400),
     Arrow("arrow", ide, BoundTo(ida), BoundTo(idb), "arrow"),
     Arrow("line", Str(<<"l">>), BoundTo(idc), BoundTo(ida), "null")}

\* longer documents: a frame and a group id over the same node, with an
\* ungrouped node and edges
LongOrderDocs ==
    {Doc(Array(<<Shape("rectangle", idd, 600, 0, <<>>),
                 Shape("ellipse", idc, 0, 300, <<>>),
                 Shape("rectangle", ida, 0, 0, <<idg>>),
                 Shape("diamond", idb, 300, 0, <<idg, idh>>),
                 Frame(idf, Str(<<"F", "r">>), -50, -50, 200, 400),
                 Arrow("arrow", ide, BoundTo(ida), BoundTo(idb), "arrow"),
                 Arrow("line", Str(<<"l">>), BoundTo(idc), BoundTo(ida), "null")>>)),
     Doc(Array(<<Shape("diamond", idb, 300, 0, <<idg, idh>>),
                 Shape("ellipse", idc, 0, 300, <<>>),
                 Shape("rectangle", ida, 0, 0, <<idg>>),
                 Arrow("line", Str(<<"l">>), BoundTo(idc), BoundTo(ida), "null"),
                 Arrow("arrow", ide, BoundTo(ida), BoundTo(idb), "arrow")>>))}

OrderDocs == {Doc(Array(l)) : l \in Lists(OrderPool)} \cup LongOrderDocs

InitOrder ==
    /\ pc = "ready"
    /\ doc \in OrderDocs
    /\ graph = NoResult
    /\ out = NoOutput
    /\ arg = <<>>
    /\ ret = <<>>

SpecOrder == InitOrder /\ [][Next]_vars

\* a finite set of numbers as an ascending sequence
RECURSIVE Ascending(_)
Ascending(S) ==
    IF S = {} THEN <<>>
    ELSE LET m == CHOOSE x \in S : \A y \in S : x <= y
         IN  <<m>> \o Ascending(S \ {m})

\* the positions in the node map of the nodes declared in the block of
\* group k, in member order: the members that are nodes, are listed by no
\* earlier group and not earlier in this one
DeclaredIn(g, k) ==
    LET members == g.groups[k].v.members
        first == {p \in 1..Len(members) :
                     /\ MapHas(g.nodes, members[p])
                     /\ FirstGroupOf(g.groups, members[p]) = k
                     /\ \A q \in 1..(p - 1) : members[q] # members[p]}
        order == Ascending(first)
    IN  [p \in 1..Len(order) |-> MapIndex(g.nodes, members[order[p]])]

\* the positions in the node map of the nodes no group lists
Ungrouped(g) ==
    Ascending({i \in 1..Len(g.nodes) : FirstGroupOf(g.groups, g.nodes[i].k) = 0})

\* the edges whose two ends are nodes, in stored order
Drawn(g) ==
    SelectSeq(g.edges, LAMBDA e : MapHas(g.nodes, e.source) /\ MapHas(g.nodes, e.target))

\* the number of the line that opens the block of group k (of the line after
\* the last block for k one more than the number of groups)
RECURSIVE BlockStart(_, _)
BlockStart(g, k) ==
    IF k = 1 THEN 2 ELSE BlockStart(g, k - 1) + Len(DeclaredIn(g, k - 1)) + 2

\* the declaration of the node at position i of the node map
DeclOf(g, i) == renderNode(shortId(i - 1), g.nodes[i].v).value

SubgraphLines(lines) == {k \in 1..Len(lines) : IsSubgraphLine(lines[k])}

\* the line that follows a line is a node declaration
DeclarationAfter(lines, k, nodes) ==
    /\ k < Len(lines)
    /\ \E i \in 1..Len(nodes) : IsDeclOf(lines[k + 1], shortId(i - 1))

(***************************************************************************)
(* C26: for every document, each subgraph block of the output holds at     *)
(* least one node declaration between its subgraph line and its end line,  *)
(* also when several groups claim the same nodes.                          *)
(***************************************************************************)
C26_NoEmptyBlock ==
    pc = "rendered" =>
        \A k \in SubgraphLines(OutLines) :
            DeclarationAfter(OutLines, k, graph.value.nodes)

(***************************************************************************)
(* Documents whose frame and group ids meet after sanitizeId, or meet a    *)
(* short id                                                                *)
(***************************************************************************)
\* twenty characters, the length sanitizeId keeps
TwentyChars == [i \in 1..SubstringEnd |-> "x"]

IdPool ==
    {Shape("rectangle", ida, 0, 0, <<Str(<<"A">>)>>),
     Shape("diamond", idb, 0, 100, <<Str(<<"A">>), Str(<<"g", "_", "1">>)>>),
     Shape("ellipse", idc, 0, 200, <<Str(<<"g", "_", "1">>)>>),
     Frame(Str(<<"g", "-", "1">>), Str(<<"F", "r">>), -50, -50, 200, 200),
     Frame(Str(<<"g", ".", "1">>), Undef, -50, -50, 200, 400),
     Frame(Str(Append(TwentyChars, "1")), Undef, -50, -50, 200, 200),
     Frame(Str(Append(TwentyChars, "2")), Undef, -50, -50, 200, 400)}

IdDocs == {Doc(Array(l)) : l \in Lists(IdPool)}

InitIds ==
    /\ pc = "ready"
    /\ doc \in IdDocs
    /\ graph = NoResult
    /\ out = NoOutput
    /\ arg = <<>>
    /\ ret = <<>>

SpecIds == InitIds /\ [][Next]_vars

\* the identifier a subgraph line declares: what follows the keyword, up to
\* the bracket of the label when there is one
SubgraphIdOf(line) ==
    LET rest == SubSeq(Strip(line), 10, Len(Strip(line)))
        brackets == {i \in 1..Len(rest) : rest[i] = "["}
    IN  IF brackets = {} THEN rest
        ELSE SubSeq(rest, 1, (CHOOSE i \in brackets : \A j \in brackets : i <= j) - 1)

\* no two subgraph lines of the output declare the same identifier
SubgraphIdsDistinct ==
    \A k, l \in SubgraphLines(OutLines) :
        k # l => SubgraphIdOf(OutLines[k]) # SubgraphIdOf(OutLines[l])

\* no subgraph line of the output declares the short id of a node
NoSubgraphIdIsShortId ==
    \A k \in SubgraphLines(OutLines) : \A i \in 1..Len(graph.value.nodes) :
        SubgraphIdOf(OutLines[k]) # shortId(i - 1)

(***************************************************************************)
(* C27: for every document, the identifiers the output declares are        *)
(* pairwise distinct: no two subgraph lines declare the same identifier,   *)
(* no subgraph identifier is the short id of a node, and no two nodes have *)
(* the same short id.                                                      *)
(***************************************************************************)
C27_DistinctIdentifiers ==
    pc = "rendered" =>
        /\ SubgraphIdsDistinct
        /\ NoSubgraphIdIsShortId
        /\ \A i, j \in 1..Len(graph.value.nodes) :
              i # j => shortId(i - 1) # shortId(j - 1)

====
